---------------------------- MODULE PointsWallet ----------------------------
(***************************************************************************)
(* What the points ledger promises, without its columns, rows and log: a   *)
(* user owns a net amount of points, of which a part is held for jobs that *)
(* are not finished.  Points are held only while the user owns them, what  *)
(* is spent was held first, and nothing but a credit, a withdrawal, a      *)
(* clawback or a finished job changes what a user owns: holding points,    *)
(* letting them go and paying a debt back leave it as it is.  A clawback   *)
(* may take more than is left, so the net amount can be negative.          *)
(***************************************************************************)
EXTENDS Integers

CONSTANT User

VARIABLES net,   \* what each user owns
          held   \* the part of it that unfinished jobs hold

walletVars == <<net, held>>

WalletInit ==
    /\ net = [u \in User |-> 0]
    /\ held = [u \in User |-> 0]

\* Only user u's entry of the function f may change.
OnlyOf(f, u) == f' = [f EXCEPT ![u] = f'[u]]

Gain(u) ==
    /\ OnlyOf(net, u)
    /\ net'[u] > net[u]
    /\ UNCHANGED held

\* An administrator's debit or the reversal of an earlier credit.
Lose(u) ==
    /\ OnlyOf(net, u)
    /\ net'[u] < net[u]
    /\ UNCHANGED held

Hold(u) ==
    /\ OnlyOf(held, u)
    /\ held'[u] > held[u]
    /\ net[u] >= held'[u]
    /\ UNCHANGED net

LetGo(u) ==
    /\ OnlyOf(held, u)
    /\ held'[u] \in 0 .. held[u]
    /\ UNCHANGED net

Spend(u) ==
    /\ OnlyOf(held, u)
    /\ held'[u] \in 0 .. held[u]
    /\ OnlyOf(net, u)
    /\ net'[u] - net[u] = held'[u] - held[u]

\* The user's account is deleted with everything in it.
CloseWallet(u) ==
    /\ net' = [net EXCEPT ![u] = 0]
    /\ held' = [held EXCEPT ![u] = 0]

WalletNext ==
    \E u \in User :
        Gain(u) \/ Lose(u) \/ Hold(u) \/ LetGo(u) \/ Spend(u) \/ CloseWallet(u)

WalletSpec == WalletInit /\ [][WalletNext]_walletVars
=============================================================================
