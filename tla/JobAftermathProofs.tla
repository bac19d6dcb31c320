------------------------- MODULE JobAftermathProofs -------------------------
(***************************************************************************)
(* For any number of jobs, orphans and calls, any batch limit and any      *)
(* faults: a successful schedule counts once, and what was deleted stays   *)
(* deleted.  The callers share no lock; the invariant says what each of    *)
(* them may rely on between two transactions: while the row it works on    *)
(* exists, what it counted stays counted.                                  *)
(***************************************************************************)
EXTENDS JobAftermath, SequenceTheorems, FiniteSetTheorems, TLAPS

\* A call that is at work on a row has one.
CallsHaveRows ==
    \A c \in Caller : at[c] \in {"count", "record", "mark", "undo"} => todo[c] # <<>>

\* The marker and the count agree; a deletion takes the marker, not the count.
CountsMatch ==
    \A j \in Job :
        /\ generated[j] <= 1
        /\ counted[j] => generated[j] = 1
        /\ HasRow(j) /\ generated[j] = 1 => counted[j]

\* A call that is past the count works on a row that counted, or is gone.
CountedOrGone(j) == HasRow(j) => generated[j] = 1

CallsCounted ==
    \A c \in Caller : at[c] \in {"record", "mark"} => CountedOrGone(Head(todo[c]))

AppliedCounted == \A j \in Job : effect[j] = "applied" => generated[j] = 1

\* Effect rows and letters refer to their job.
NothingLeft(j) == effect[j] = "none" /\ ~counted[j] /\ ~letter[j]

GoneHaveNothing == \A j \in Job : ~HasRow(j) => NothingLeft(j)

JobsAgree == CountsMatch /\ AppliedCounted /\ GoneHaveNothing

IInv == TypeOK /\ CallsHaveRows /\ CallsCounted /\ JobsAgree

-----------------------------------------------------------------------------
(* Calls                                                                   *)

\* One call goes on with some rows, or none.
CallGoes(c, place, rows) ==
    /\ place \in Place /\ rows \in Seq(Job)
    /\ at' = [at EXCEPT ![c] = place]
    /\ todo' = [todo EXCEPT ![c] = rows]
    /\ place \in {"count", "record", "mark", "undo"} => rows # <<>>
    /\ place \in {"record", "mark"} => CountedOrGone(Head(rows))'

\* No deleted job comes back and nothing is counted back.
TablesGrow == \A j \in Job : CountedOrGone(j) => CountedOrGone(j)'

CallTypes == at \in [Caller -> Place] /\ todo \in [Caller -> Seq(Job)]

CallsSound == CallTypes /\ CallsHaveRows /\ CallsCounted

LEMMA HeadAndTail ==
    ASSUME TypeOK, CallsHaveRows, NEW c \in Caller,
           at[c] \in {"count", "record", "mark", "undo"}
    PROVE Head(todo[c]) \in Job /\ Tail(todo[c]) \in Seq(Job)
<1>1. todo[c] \in Seq(Job) /\ todo[c] # <<>>
  BY DEF TypeOK, CallsHaveRows
<1> QED BY <1>1, HeadTailProperties

\* The calls that do not move lose nothing.
LEMMA OthersSound ==
    ASSUME TypeOK, CallsHaveRows, CallsCounted, TablesGrow, NEW c \in Caller,
           at'[c] = at[c], todo'[c] = todo[c]
    PROVE /\ at'[c] \in {"count", "record", "mark", "undo"} => todo'[c] # <<>>
          /\ at'[c] \in {"record", "mark"} =>
                (status'[Head(todo'[c])] # "deleted" => generated'[Head(todo'[c])] = 1)
<1>1. at[c] \in {"count", "record", "mark", "undo"} => todo[c] # <<>>
  BY DEF CallsHaveRows
<1>2. ASSUME at[c] \in {"record", "mark"}
      PROVE status'[Head(todo[c])] # "deleted" => generated'[Head(todo[c])] = 1
  <2>1. Head(todo[c]) \in Job
    BY <1>2, HeadAndTail
  <2>2. PICK j \in Job : j = Head(todo[c])
    BY <2>1
  <2>3. CountedOrGone(j)
    BY <1>2, <2>2 DEF CallsCounted
  <2>4. CountedOrGone(j)'
    BY <2>3 DEF TablesGrow
  <2> QED BY <2>2, <2>4 DEF CountedOrGone, HasRow
<1> QED BY <1>1, <1>2

LEMMA StillSound ==
    ASSUME TypeOK, CallsHaveRows, CallsCounted, TablesGrow, UNCHANGED <<at, todo>>
    PROVE CallsSound'
<1>1. CallTypes'
  BY DEF TypeOK, CallTypes
<1>2. CallsHaveRows' /\ CallsCounted'
  BY OthersSound DEF CallsHaveRows, CallsCounted, CountedOrGone, HasRow
<1> QED BY <1>1, <1>2 DEF CallsSound

LEMMA CallGoesSound ==
    ASSUME TypeOK, CallsHaveRows, CallsCounted, TablesGrow,
           NEW c \in Caller, NEW place, NEW rows, CallGoes(c, place, rows)
    PROVE CallsSound'
<1>1. at'[c] = place /\ todo'[c] = rows
  BY DEF TypeOK, CallGoes
<1>2. CallTypes'
  BY DEF TypeOK, CallGoes, CallTypes
<1>3. ASSUME NEW d \in Caller
      PROVE /\ at'[d] \in {"count", "record", "mark", "undo"} => todo'[d] # <<>>
            /\ at'[d] \in {"record", "mark"} =>
                  (status'[Head(todo'[d])] # "deleted" => generated'[Head(todo'[d])] = 1)
  <2>1. CASE d = c
    BY <1>1, <2>1 DEF CallGoes, CountedOrGone, HasRow
  <2>2. CASE d # c
    <3>1. at'[d] = at[d] /\ todo'[d] = todo[d]
      BY <2>2 DEF TypeOK, CallGoes
    <3> QED BY <3>1, OthersSound
  <2> QED BY <2>1, <2>2
<1>4. CallsHaveRows' /\ CallsCounted'
  BY <1>3 DEF CallsHaveRows, CallsCounted, CountedOrGone, HasRow
<1> QED BY <1>2, <1>4 DEF CallsSound

\* A call that finishes a row takes the next, or ends.
LEMMA GoesOnSound ==
    ASSUME TypeOK, CallsHaveRows, CallsCounted, TablesGrow,
           NEW c \in Caller, NEW rows \in Seq(Job), GoOnWith(c, rows)
    PROVE CallsSound'
<1>1. CallGoes(c, NextPlace(c, rows), rows)
  BY DEF GoOnWith, NextPlace, CallGoes, Place
<1> QED BY <1>1, CallGoesSound

\* A call that goes to the next transaction of its row.
LEMMA MovesSound ==
    ASSUME TypeOK, CallsHaveRows, CallsCounted, TablesGrow, NEW c \in Caller,
           NEW from \in {"count", "record", "mark"}, NEW to \in {"record", "mark", "undo"},
           Moves(c, from, to),
           to # "undo" => CountedOrGone(Head(todo[c]))' 
    PROVE CallsSound'
<1>1. PICK rows \in Seq(Job) : rows = todo[c] /\ rows # <<>>
  BY DEF TypeOK, CallsHaveRows, Moves
<1>2. todo' = [todo EXCEPT ![c] = rows]
  BY <1>1 DEF Moves, TypeOK
<1>3. to # "undo" => CountedOrGone(Head(rows))'
  BY <1>1, <1>2 DEF TypeOK, CountedOrGone, HasRow
<1>4. CallGoes(c, to, rows)
  BY <1>1, <1>2, <1>3 DEF Moves, CallGoes, Place
<1> QED BY <1>4, CallGoesSound

-----------------------------------------------------------------------------
(* Tables                                                                  *)

TableTypes ==
    /\ status \in [Job -> JobStatus]
    /\ effect \in [Job -> EffectStatus]
    /\ counted \in [Job -> BOOLEAN]
    /\ generated \in [Job -> Nat]
    /\ letter \in [Job -> BOOLEAN]
    /\ aged \in [Job -> BOOLEAN]
    /\ earlier \in [Job -> SUBSET Job]
    /\ cdkUsable \in BOOLEAN
    /\ faults \in 0..FaultBound

\* What a step does to the tables, whatever the calls do.
TablesSound == TableTypes' /\ JobsAgree' /\ TablesGrow

LEMMA BothSound ==
    ASSUME TablesSound, CallsSound'
    PROVE IInv'
BY DEF TablesSound, IInv, TypeOK, TableTypes, CallsSound, CallTypes

LEMMA FaultCounted ==
    ASSUME faults \in 0..FaultBound, Faulty
    PROVE faults' \in 0..FaultBound
BY AftermathAssumption DEF Faulty

\* Steps that leave rows and counts alone.
LEMMA SameTables ==
    ASSUME IInv, UNCHANGED <<status, effect, counted, generated>>,
           letter' = letter, aged' \in [Job -> BOOLEAN],
           earlier' = earlier, cdkUsable' \in BOOLEAN, faults' \in 0..FaultBound
    PROVE TablesSound
<1>1. TableTypes'
  BY DEF IInv, TypeOK, TableTypes
<1>2. JobsAgree' /\ TablesGrow
  BY DEF IInv, JobsAgree, CountsMatch, AppliedCounted, GoneHaveNothing, NothingLeft, TablesGrow,
     CountedOrGone, HasRow
<1> QED BY <1>1, <1>2 DEF TablesSound

LEMMA NewestTyped ==
    ASSUME NEW j \in Job, earlier \in [Job -> SUBSET Job]
    PROVE Newest(j) \in [Job -> SUBSET Job]
BY DEF Newest

LEMMA SucceedTables ==
    ASSUME IInv, NEW j \in Job, Succeed(j)
    PROVE TablesSound
<1>1. /\ status' = [status EXCEPT ![j] = "succeeded"]
      /\ effect' = [effect EXCEPT ![j] = "pending"]
      /\ earlier' = Newest(j) /\ status[j] = "open"
      /\ UNCHANGED <<counted, generated, letter, aged, cdkUsable, faults>>
  BY DEF Succeed
<1>2. TableTypes'
  BY <1>1, NewestTyped DEF IInv, TypeOK, TableTypes, JobStatus, EndedStatus, EffectStatus
<1>3. JobsAgree' /\ TablesGrow
  BY <1>1 DEF IInv, TypeOK, JobsAgree, CountsMatch, AppliedCounted, GoneHaveNothing, NothingLeft, TablesGrow,
     CountedOrGone, HasRow
<1> QED BY <1>2, <1>3 DEF TablesSound

LEMMA EndTables ==
    ASSUME IInv, NEW j \in Job, EndPlainly(j) \/ DeadLetter(j)
    PROVE TablesSound
<1>1. /\ status' = [status EXCEPT ![j] = "plain"] \/ status' = [status EXCEPT ![j] = "dead_lettered"]
      /\ status[j] = "open"
      /\ UNCHANGED <<effect, counted, generated, aged, earlier, cdkUsable, faults>>
      /\ letter' = letter \/ letter' = [letter EXCEPT ![j] = TRUE]
  BY DEF EndPlainly, DeadLetter
<1>2. TableTypes'
  BY <1>1 DEF IInv, TypeOK, TableTypes, JobStatus, EndedStatus
<1>3. JobsAgree' /\ TablesGrow
  BY <1>1 DEF IInv, TypeOK, JobsAgree, CountsMatch, AppliedCounted, GoneHaveNothing, NothingLeft, TablesGrow,
     CountedOrGone, HasRow
<1> QED BY <1>2, <1>3 DEF TablesSound

\* The count and its marker are one transaction.
LEMMA CountTables ==
    ASSUME IInv, NEW c \in Caller, Count(c)
    PROVE TablesSound /\ CountedOrGone(Head(todo[c]))'
<1>1. Head(todo[c]) \in Job
  BY HeadAndTail DEF IInv, Count, Moves
<1>2. PICK j \in Job : j = Head(todo[c])
  BY <1>1
<1> DEFINE n == IF counted[j] THEN generated[j] ELSE generated[j] + 1
<1>3. /\ HasRow(j)
      /\ counted' = [counted EXCEPT ![j] = TRUE]
      /\ generated' = [generated EXCEPT ![j] = n]
      /\ UNCHANGED <<status, effect, letter, aged, earlier, cdkUsable, faults, todo>>
  BY <1>2 DEF Count, Moves, jobVars
<1>4. n = 1 /\ generated[j] \in Nat
  <2>1. generated[j] \in Nat /\ generated[j] <= 1 /\ counted[j] \in BOOLEAN
        /\ (counted[j] => generated[j] = 1) /\ (generated[j] = 1 => counted[j])
    BY <1>3 DEF IInv, TypeOK, JobsAgree, CountsMatch
  <2> QED BY <2>1
<1> HIDE DEF n
<1>5. generated' = [generated EXCEPT ![j] = 1]
  BY <1>3, <1>4
<1>6. TableTypes'
  BY <1>3, <1>5 DEF IInv, TypeOK, TableTypes
<1>7. JobsAgree' /\ TablesGrow
  BY <1>3, <1>5 DEF IInv, TypeOK, JobsAgree, CountsMatch, AppliedCounted, GoneHaveNothing, NothingLeft,
     TablesGrow, CountedOrGone, HasRow
<1>8. CountedOrGone(Head(todo[c]))'
  BY <1>2, <1>3, <1>5 DEF IInv, TypeOK, CountedOrGone
<1> QED BY <1>6, <1>7, <1>8 DEF TablesSound

\* An effect is marked applied by a call that counted it.
LEMMA SetEffectTables ==
    ASSUME IInv, NEW c \in Caller, MarkApplied(c) \/ MarkAnswerLost(c) \/ MarkPending(c)
    PROVE TablesSound
<1>1. Head(todo[c]) \in Job
  BY HeadAndTail DEF IInv, MarkApplied, MarkAnswerLost, MarkPending, SetEffect
<1>2. PICK j \in Job : j = Head(todo[c])
  BY <1>1
<1>3. PICK new \in {"applied", "pending"} :
          /\ effect' = [effect EXCEPT ![j] = IF HasRow(j) THEN new ELSE @]
          /\ HasRow(j) /\ new = "applied" => generated[j] = 1
  <2>1. CASE MarkApplied(c) \/ MarkAnswerLost(c)
    <3>1. CountedOrGone(j)
      BY <1>2, <2>1 DEF IInv, CallsCounted, MarkApplied, MarkAnswerLost, SetEffect
    <3>2. effect' = [effect EXCEPT ![j] = IF HasRow(j) THEN "applied" ELSE @]
      BY <1>2, <2>1 DEF MarkApplied, MarkAnswerLost, SetEffect
    <3> QED BY <3>1, <3>2 DEF CountedOrGone
  <2>2. CASE MarkPending(c)
    BY <1>2, <2>2 DEF MarkPending, SetEffect
  <2> QED BY <2>1, <2>2
<1>4. /\ UNCHANGED <<status, letter, aged, counted, generated, cdkUsable>>
      /\ earlier' = Newest(j) \/ earlier' = earlier
      /\ faults' \in 0..FaultBound
  BY <1>2, FaultCounted DEF MarkApplied, MarkAnswerLost, MarkPending, SetEffect, SetsAppliedAt,
     DoneWithRow, jobVars, IInv, TypeOK
<1>5. CASE ~HasRow(j)
  <2>1. effect' = effect
    BY <1>3, <1>5 DEF IInv, TypeOK
  <2>2. TableTypes'
    BY <1>4, <2>1, NewestTyped DEF IInv, TypeOK, TableTypes
  <2>3. JobsAgree' /\ TablesGrow
    BY <1>4, <2>1 DEF IInv, JobsAgree, CountsMatch, AppliedCounted, GoneHaveNothing, NothingLeft,
       TablesGrow, CountedOrGone, HasRow
  <2> QED BY <2>2, <2>3 DEF TablesSound
<1>6. CASE HasRow(j)
  <2>1. effect' = [effect EXCEPT ![j] = new]
    BY <1>3, <1>6
  <2>2. TableTypes'
    BY <1>4, <2>1, NewestTyped DEF IInv, TypeOK, TableTypes, EffectStatus
  <2>3. JobsAgree' /\ TablesGrow
    BY <1>3, <1>4, <1>6, <2>1 DEF IInv, TypeOK, JobsAgree, CountsMatch, AppliedCounted,
       GoneHaveNothing, NothingLeft, TablesGrow, CountedOrGone, HasRow
  <2> QED BY <2>2, <2>3 DEF TablesSound
<1> QED BY <1>5, <1>6

\* The letters of deleted jobs are deleted before them, or there were none.
LEMMA DeleteTables ==
    ASSUME IInv, NEW S \in SUBSET Job, DeleteJobs(S),
           letter' = [j \in Job |-> j \notin S /\ letter[j]]
    PROVE TablesSound
<1>1. /\ status' = [j \in Job |-> IF j \in S THEN "deleted" ELSE status[j]]
      /\ effect' = [j \in Job |-> IF j \in S THEN "none" ELSE effect[j]]
      /\ counted' = [j \in Job |-> j \notin S /\ counted[j]]
      /\ earlier' = [j \in Job |-> IF j \in S THEN {} ELSE earlier[j] \ S]
      /\ UNCHANGED <<generated, aged, cdkUsable, faults>>
  BY DEF DeleteJobs
<1>2. TableTypes'
  BY <1>1 DEF IInv, TypeOK, TableTypes, JobStatus, EffectStatus
<1>3. CountsMatch' /\ AppliedCounted' /\ TablesGrow
  BY <1>1 DEF IInv, TypeOK, JobsAgree, CountsMatch, AppliedCounted, TablesGrow,
     CountedOrGone, HasRow
<1>4. GoneHaveNothing'
  BY <1>1 DEF IInv, TypeOK, JobsAgree, GoneHaveNothing, NothingLeft, HasRow
<1> QED BY <1>2, <1>3, <1>4 DEF TablesSound, JobsAgree

LEMMA CleanupDeletes ==
    ASSUME IInv, Cleanup
    PROVE \E S \in SUBSET Job :
              DeleteJobs(S) /\ letter' = [j \in Job |-> j \notin S /\ letter[j]]
<1> DEFINE due == {j \in Job : Expired(j)}
           S == {j \in due : \A k \in due : ~letter[k]}
<1>1. DeleteJobs(S) /\ letter' = letter
  BY DEF Cleanup
<1>2. S \in SUBSET Job /\ \A j \in S : ~letter[j]
  OBVIOUS
<1> HIDE DEF due, S
<1>3. letter = [j \in Job |-> letter[j]]
  BY DEF IInv, TypeOK
<1>4. letter = [j \in Job |-> j \notin S /\ letter[j]]
  <2>1. \A j \in Job : letter[j] = (j \notin S /\ letter[j])
    BY <1>2 DEF IInv, TypeOK
  <2> QED BY <1>3, <2>1
<1> QED BY <1>1, <1>2, <1>4

-----------------------------------------------------------------------------
(* Steps                                                                   *)

LEMMA JobStepInv ==
    ASSUME IInv, NEW j \in Job, Succeed(j) \/ EndPlainly(j) \/ DeadLetter(j) \/ Age(j)
    PROVE IInv'
<1>1. CASE Succeed(j)
  <2>1. TablesSound
    BY <1>1, SucceedTables
  <2>2. CallGoes(j, "read", todo[j])
    BY <1>1 DEF Succeed, CallGoes, Place, Caller, IInv, TypeOK
  <2> QED BY <2>1, <2>2, CallGoesSound, BothSound DEF TablesSound, IInv, Caller
<1>2. CASE EndPlainly(j) \/ DeadLetter(j)
  <2>1. TablesSound /\ UNCHANGED <<at, todo>>
    BY <1>2, EndTables DEF EndPlainly, DeadLetter
  <2> QED BY <2>1, StillSound, BothSound DEF TablesSound, IInv
<1>3. CASE Age(j)
  <2>1. UNCHANGED <<status, effect, counted, generated, letter, earlier, cdkUsable, at, todo, faults>>
        /\ aged' \in [Job -> BOOLEAN]
    BY <1>3 DEF Age, IInv, TypeOK
  <2>2. TablesSound
    BY <2>1, SameTables DEF IInv, TypeOK
  <2> QED BY <2>1, <2>2, StillSound, BothSound DEF TablesSound, IInv
<1> QED BY <1>1, <1>2, <1>3

\* The steps of a call that leave the tables alone.
LEMMA QuietStepInv ==
    ASSUME IInv, NEW c \in Caller, NEW from \in {"count", "record", "mark"},
           CountFails(c) \/ RecordEvent(c) \/ StoreFails(c, from)
    PROVE IInv'
<1>1. UNCHANGED <<jobVars, effect, counted, generated, earlier, cdkUsable>>
      /\ faults' \in 0..FaultBound
  BY FaultCounted DEF CountFails, RecordEvent, StoreFails, IInv, TypeOK
<1>2. TablesSound
  BY <1>1, SameTables DEF jobVars, IInv, TypeOK
<1>3. CASE RecordEvent(c)
  <2>1. Moves(c, "record", "mark")
    BY <1>3 DEF RecordEvent
  <2>2. CountedOrGone(Head(todo[c]))
    BY <2>1 DEF Moves, IInv, CallsCounted
  <2>3. CountedOrGone(Head(todo[c]))'
    BY <1>1, <2>1, <2>2 DEF Moves, jobVars, CountedOrGone, HasRow
  <2>4. CallsSound'
    BY <1>2, <2>1, <2>3, MovesSound DEF TablesSound, IInv
  <2> QED BY <1>2, <2>4, BothSound DEF TablesSound
<1>4. CASE CountFails(c) \/ StoreFails(c, from)
  <2>1. PICK f \in {"count", "record", "mark"} : Moves(c, f, "undo")
    BY <1>4 DEF CountFails, StoreFails
  <2>2. CallsSound'
    BY <1>2, <2>1, MovesSound DEF TablesSound, IInv
  <2> QED BY <1>2, <2>2, BothSound DEF TablesSound
<1> QED BY <1>3, <1>4

LEMMA CallStepInv ==
    ASSUME IInv, NEW c \in Caller, CallStep(c)
    PROVE IInv'
<1>1. CASE Count(c)
  <2>1. TablesSound /\ CountedOrGone(Head(todo[c]))' /\ Moves(c, "count", "record")
    BY <1>1, CountTables DEF Count
  <2>2. CallsSound'
    BY <2>1, MovesSound DEF TablesSound, IInv
  <2> QED BY <2>1, <2>2, BothSound DEF TablesSound
<1>2. CASE CountFails(c) \/ RecordEvent(c)
  BY <1>2, QuietStepInv
<1>3. CASE MarkApplied(c) \/ MarkPending(c)
  <2>1. TablesSound
    BY <1>3, SetEffectTables
  <2>2. GoOnWith(c, Tail(todo[c])) /\ at[c] \in {"mark", "undo"}
    BY <1>3 DEF MarkApplied, MarkPending, SetEffect, DoneWithRow
  <2>3. Tail(todo[c]) \in Seq(Job)
    BY <2>2, HeadAndTail DEF IInv
  <2>4. CallsSound'
    BY <2>1, <2>2, <2>3, GoesOnSound DEF TablesSound, IInv
  <2> QED BY <2>1, <2>4, BothSound DEF TablesSound
<1> QED BY <1>1, <1>2, <1>3 DEF CallStep

LEMMA CallFaultInv ==
    ASSUME IInv, NEW c \in Caller, CallFault(c)
    PROVE IInv'
<1>1. CASE \E from \in {"count", "record", "mark"} : StoreFails(c, from)
  BY <1>1, QuietStepInv
<1>2. CASE MarkPendingFails(c) \/ Crash(c)
  <2>1. UNCHANGED <<jobVars, effect, counted, generated, earlier, cdkUsable>>
        /\ faults' \in 0..FaultBound
    BY <1>2, FaultCounted DEF MarkPendingFails, Crash, IInv, TypeOK
  <2>2. TablesSound
    BY <2>1, SameTables DEF jobVars, IInv, TypeOK
  <2>3. CASE MarkPendingFails(c)
    <3>1. Tail(todo[c]) \in Seq(Job) /\ GoOnWith(c, Tail(todo[c]))
      BY <2>3, HeadAndTail DEF MarkPendingFails, IInv
    <3>2. CallsSound'
      BY <2>2, <3>1, GoesOnSound DEF TablesSound, IInv
    <3> QED BY <2>2, <3>2, BothSound DEF TablesSound
  <2>4. CASE Crash(c)
    <3>1. CallGoes(c, "idle", <<>>)
      BY <2>4 DEF Crash, CallGoes, Place
    <3>2. CallsSound'
      BY <2>2, <3>1, CallGoesSound DEF TablesSound, IInv
    <3> QED BY <2>2, <3>2, BothSound DEF TablesSound
  <2> QED BY <1>2, <2>3, <2>4
<1>3. CASE MarkAnswerLost(c)
  <2>1. TablesSound
    BY <1>3, SetEffectTables
  <2>2. CallsSound'
    BY <1>3, <2>1, MovesSound DEF MarkAnswerLost, TablesSound, IInv
  <2> QED BY <2>1, <2>2, BothSound DEF TablesSound
<1> QED BY <1>1, <1>2, <1>3 DEF CallFault

\* A call starts with the rows it read.
LEMMA StartInv ==
    ASSUME IInv, NEW c \in Caller, NEW rows \in Seq(Job), GoOnWith(c, rows),
           UNCHANGED <<jobVars, effect, counted, generated, earlier, cdkUsable, faults>>
    PROVE IInv'
<1>1. TablesSound
  BY SameTables DEF jobVars, IInv, TypeOK
<1>2. CallsSound'
  BY <1>1, GoesOnSound DEF TablesSound, IInv
<1> QED BY <1>1, <1>2, BothSound DEF TablesSound

LEMMA CleanupInv ==
    ASSUME IInv, Cleanup
    PROVE IInv'
<1>1. TablesSound
  BY CleanupDeletes, DeleteTables
<1>2. Maintenance \in Caller
  BY DEF Caller
<1>3. CallGoes(Maintenance, "idle", todo[Maintenance])
  BY <1>2 DEF Cleanup, DeleteJobs, CallGoes, Place, IInv, TypeOK
<1>4. CallsSound'
  BY <1>1, <1>2, <1>3, CallGoesSound DEF TablesSound, IInv
<1> QED BY <1>1, <1>4, BothSound DEF TablesSound

\* The calls go on with rows that are gone.
LEMMA EraseInv ==
    ASSUME IInv, NEW u \in User, EraseAccount(u)
    PROVE IInv'
<1> DEFINE owned == {j \in Job : UserOf[j] = u}
<1>1. DeleteJobs(owned) /\ letter' = [j \in Job |-> j \notin owned /\ letter[j]]
  BY DEF EraseAccount
<1>2. TablesSound
  BY <1>1, DeleteTables
<1>3. UNCHANGED <<at, todo>>
  BY DEF EraseAccount, DeleteJobs
<1> QED BY <1>2, <1>3, StillSound, BothSound DEF TablesSound, IInv

LEMMA BatchTyped == \A rows \in Batch : rows \in Seq(Job)
<1> SUFFICES ASSUME NEW n \in 0..BatchLimit, NEW rows \in [1..n -> Job] PROVE rows \in Seq(Job)
  BY DEF Batch
<1>1. n \in Nat
  BY AftermathAssumption
<1> QED BY <1>1, IsASeq

LEMMA NextInv == IInv /\ [Next]_vars => IInv'
<1> SUFFICES ASSUME IInv, [Next]_vars PROVE IInv'
  OBVIOUS
<1>1. ASSUME NEW j \in Job, Succeed(j) \/ EndPlainly(j) \/ DeadLetter(j) \/ Age(j) PROVE IInv'
  BY <1>1, JobStepInv
<1>2. CASE FreezeCdk
  <2>1. TablesSound
    BY <1>2, FaultCounted, SameTables DEF FreezeCdk, jobVars, IInv, TypeOK
  <2> QED BY <1>2, <2>1, StillSound, BothSound DEF FreezeCdk, TablesSound, IInv
<1>3. ASSUME NEW j \in Job, StartRunnerCall(j) PROVE IInv'
  <2> DEFINE rows == IF Pending(j) THEN <<j>> ELSE <<>>
  <2>1. rows \in Seq(Job) /\ j \in Caller
    BY DEF Caller
  <2>2. GoOnWith(j, rows)
    BY <1>3 DEF StartRunnerCall
  <2> HIDE DEF rows
  <2> QED BY <1>3, <2>1, <2>2, StartInv DEF StartRunnerCall
<1>4. CASE StartMaintenance
  <2>1. PICK rows \in Batch : GoOnWith(Maintenance, rows)
    BY <1>4 DEF StartMaintenance
  <2>2. rows \in Seq(Job) /\ Maintenance \in Caller
    BY BatchTyped DEF Caller
  <2> QED BY <1>4, <2>1, <2>2, StartInv DEF StartMaintenance
<1>5. ASSUME NEW c \in Caller, CallStep(c) \/ CallFault(c) PROVE IInv'
  BY <1>5, CallStepInv, CallFaultInv
<1>6. CASE Cleanup
  BY <1>6, CleanupInv
<1>7. ASSUME NEW u \in User, EraseAccount(u) PROVE IInv'
  BY <1>7, EraseInv
<1>8. CASE UNCHANGED vars
  <2>1. TablesSound
    BY <1>8, SameTables DEF vars, IInv, TypeOK
  <2> QED BY <1>8, <2>1, StillSound, BothSound DEF vars, TablesSound, IInv
<1> QED BY <1>1, <1>2, <1>3, <1>4, <1>5, <1>6, <1>7, <1>8 DEF Next

LEMMA InitInv == Init => IInv
BY AftermathAssumption
DEF Init, IInv, TypeOK, CallsHaveRows, CallsCounted, JobsAgree, CountsMatch, AppliedCounted,
    GoneHaveNothing, NothingLeft, JobStatus, EffectStatus, Place

\* The strengthened invariant.
THEOREM IInvAlways == Spec => []IInv
BY InitInv, NextInv, PTL DEF Spec

\* Every variable keeps its type.
THEOREM AftermathTypeCorrect == Spec => []TypeOK
<1>1. IInv => TypeOK
  BY DEF IInv
<1> QED BY <1>1, IInvAlways, PTL

\* A successful schedule counts at most once on its CDK, and its effect is marked
\* applied only after it counted, however many calls apply it at once, stop or
\* are repeated.
THEOREM CountsOnce == Spec => []CountedOnce
<1>1. IInv => CountedOnce
  BY DEF IInv, JobsAgree, CountsMatch, AppliedCounted, CountedOnce
<1> QED BY <1>1, IInvAlways, PTL

\* No call brings back a deleted job or one of its rows, or counts for it.
LEMMA CallsLeaveGone ==
    ASSUME IInv, NEW c \in Caller, CallStep(c) \/ CallFault(c), NEW j \in Job, ~HasRow(j)
    PROVE /\ UNCHANGED <<status, letter>>
          /\ effect'[j] = effect[j] /\ counted'[j] = counted[j] /\ generated'[j] = generated[j]
<1>1. CASE Count(c)
  <2>1. Head(todo[c]) \in Job
    BY <1>1, HeadAndTail DEF IInv, Count, Moves
  <2>2. PICK i \in Job : i = Head(todo[c])
    BY <2>1
  <2>3. /\ HasRow(i) /\ UNCHANGED <<status, letter, effect>>
        /\ counted' = [counted EXCEPT ![i] = TRUE]
        /\ generated' = [generated EXCEPT ![i] = IF counted[i] THEN @ ELSE @ + 1]
    BY <1>1, <2>2 DEF Count, jobVars
  <2>4. i # j
    BY <2>3
  <2> QED BY <2>3, <2>4 DEF IInv, TypeOK
<1>2. CASE MarkApplied(c) \/ MarkPending(c) \/ MarkAnswerLost(c)
  <2>1. Head(todo[c]) \in Job
    BY <1>2, HeadAndTail DEF IInv, MarkApplied, MarkAnswerLost, MarkPending, SetEffect
  <2>2. PICK i \in Job : i = Head(todo[c])
    BY <2>1
  <2>3. /\ UNCHANGED <<status, letter, counted, generated>>
        /\ \E new \in EffectStatus :
              effect' = [effect EXCEPT ![i] = IF HasRow(i) THEN new ELSE @]
    BY <1>2, <2>2 DEF MarkApplied, MarkAnswerLost, MarkPending, SetEffect, jobVars, EffectStatus
  <2> QED BY <2>3 DEF IInv, TypeOK
<1>3. CASE \/ CountFails(c) \/ RecordEvent(c) \/ MarkPendingFails(c) \/ Crash(c)
           \/ \E from \in {"count", "record", "mark"} : StoreFails(c, from)
  BY <1>3 DEF CountFails, RecordEvent, StoreFails, MarkPendingFails, Crash, jobVars
<1> QED BY <1>1, <1>2, <1>3 DEF CallStep, CallFault

LEMMA DeletionLeavesGone ==
    ASSUME IInv, NEW S \in SUBSET Job, DeleteJobs(S), NEW j \in Job, ~HasRow(j)
    PROVE status'[j] = "deleted" /\ generated'[j] = generated[j]
BY DEF DeleteJobs, HasRow

\* What a step leaves of a job that was gone before it.
LEMMA GoneStays ==
    ASSUME IInv, [Next]_vars, NEW j \in Job, ~HasRow(j)
    PROVE status'[j] = "deleted" /\ generated'[j] = generated[j]
<1>1. status[j] = "deleted"
  BY DEF HasRow
<1>2. ASSUME NEW i \in Job, Succeed(i) \/ EndPlainly(i) \/ DeadLetter(i) \/ Age(i)
      PROVE status'[j] = "deleted" /\ generated'[j] = generated[j]
  BY <1>1, <1>2 DEF Succeed, EndPlainly, DeadLetter, Age, IInv, TypeOK
<1>3. CASE FreezeCdk \/ StartMaintenance \/ \E i \in Job : StartRunnerCall(i)
  BY <1>1, <1>3 DEF FreezeCdk, StartMaintenance, StartRunnerCall, jobVars
<1>4. ASSUME NEW c \in Caller, CallStep(c) \/ CallFault(c)
      PROVE status'[j] = "deleted" /\ generated'[j] = generated[j]
  BY <1>1, <1>4, CallsLeaveGone
<1>5. CASE Cleanup
  BY <1>5, CleanupDeletes, DeletionLeavesGone
<1>6. ASSUME NEW u \in User, EraseAccount(u)
      PROVE status'[j] = "deleted" /\ generated'[j] = generated[j]
  <2> DEFINE owned == {i \in Job : UserOf[i] = u}
  <2>1. DeleteJobs(owned) /\ owned \in SUBSET Job
    BY <1>6 DEF EraseAccount
  <2> QED BY <2>1, DeletionLeavesGone
<1>7. CASE UNCHANGED vars
  BY <1>1, <1>7 DEF vars
<1> QED BY <1>2, <1>3, <1>4, <1>5, <1>6, <1>7 DEF Next

\* A call that still holds the row of a deleted job brings back neither the job
\* nor one of its effect rows or letters, and counts nothing for it.
THEOREM DeletedForGood == Spec => GoneStaysGone
<1>1. IInv /\ [Next]_vars =>
        [\A j \in Job : ~HasRow(j) =>
            /\ status'[j] = "deleted"
            /\ effect'[j] = "none" /\ ~counted'[j] /\ ~letter'[j]
            /\ generated'[j] = generated[j]]_vars
  <2> SUFFICES ASSUME IInv, [Next]_vars, NEW j \in Job, ~HasRow(j)
               PROVE /\ status'[j] = "deleted"
                     /\ effect'[j] = "none" /\ ~counted'[j] /\ ~letter'[j]
                     /\ generated'[j] = generated[j]
    OBVIOUS
  <2>1. status'[j] = "deleted" /\ generated'[j] = generated[j]
    BY GoneStays
  <2>2. GoneHaveNothing'
    BY NextInv DEF IInv, JobsAgree
  <2> QED BY <2>1, <2>2 DEF GoneHaveNothing, NothingLeft, HasRow
<1> QED BY <1>1, IInvAlways, PTL DEF Spec, GoneStaysGone
=============================================================================
