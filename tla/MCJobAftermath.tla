-------------------------- MODULE MCJobAftermath --------------------------
(* Two jobs that may succeed, one of them with a profile that is gone, and  *)
(* one job that runs out of attempts, whose owner has one of the others.    *)
EXTENDS JobAftermath

CONSTANTS lost, kept, dead, ann, bob

MCJob == {lost, kept, dead}
MCOrphan == {lost}
MCDeadLetterJob == {dead}
MCUser == {ann, bob}
MCUserOf == [j \in MCJob |-> IF j = lost THEN bob ELSE ann]
=============================================================================
