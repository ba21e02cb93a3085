------------------------------ MODULE FileSync ------------------------------
(***************************************************************************)
(* What a watched folder is for: its files reach the server, and what the  *)
(* service remembers of that is never more than what is true.  Events,     *)
(* timers, goroutines and channels do not appear.  A version of a file is  *)
(* the time it was modified; 0 stands for no file, or nothing known.       *)
(***************************************************************************)
EXTENDS Naturals

CONSTANT Files

VARIABLES
    running,    \* the service watches the folder
    disk,       \* the version in the folder
    server,     \* the latest version the server has accepted
    memory,     \* what the running service remembers of it, plus one
    journal     \* what it would remember after a restart

vars == <<running, disk, server, memory, journal>>

Nothing == [f \in Files |-> 0]

Init ==
    /\ running = FALSE
    /\ disk = Nothing /\ server = Nothing /\ memory = Nothing /\ journal = Nothing

\* Somebody writes the file, or removes it.
Edit(f) ==
    /\ disk' \in [Files -> Nat] /\ \A g \in Files \ {f} : disk'[g] = disk[g]
    /\ UNCHANGED <<running, server, memory, journal>>

\* The server gets a version no newer than the file: that one or a later one.
Accept(f) ==
    /\ \E v \in server[f] + 1 .. disk[f] : server' = [server EXCEPT ![f] = v]
    /\ UNCHANGED <<running, disk, memory, journal>>

Without(fs, versions) == [f \in Files |-> IF f \in fs THEN 0 ELSE versions[f]]

\* The service takes note of versions the server has, a second later, and may
\* write down what it remembers, or some of it.
Learn(f) == \E v \in 1 .. server[f] : memory' = [memory EXCEPT ![f] = v + 1]

Record ==
    /\ running
    /\ memory' = memory \/ \E f \in Files : Learn(f)
    /\ journal' = journal \/ \E fs \in SUBSET Files : journal' = Without(fs, memory')
    /\ UNCHANGED <<running, disk, server>>

\* The file is gone.
Forget(f) ==
    /\ running
    /\ memory' = [memory EXCEPT ![f] = 0]
    /\ UNCHANGED <<running, disk, server, journal>>

\* The service removes files it has uploaded.
Expire(fs) ==
    /\ running /\ \A f \in fs : memory[f] # 0
    /\ disk' = Without(fs, disk) /\ memory' = Without(fs, memory)
    /\ UNCHANGED <<running, server, journal>>

\* The service stops or dies ...
Stop ==
    /\ running /\ ~running'
    /\ memory' = Nothing
    /\ UNCHANGED <<disk, server, journal>>

\* ... and comes back, with what it had written down of the files that are there.
Start ==
    /\ ~running /\ running'
    /\ memory' = Without({f \in Files : disk[f] = 0}, journal)
    /\ UNCHANGED <<disk, server, journal>>

Next ==
    \/ \E f \in Files : Edit(f) \/ Accept(f) \/ Forget(f)
    \/ \E fs \in SUBSET Files : Expire(fs)
    \/ Record \/ Stop \/ Start

Spec == Init /\ [][Next]_vars
===========================================================================
