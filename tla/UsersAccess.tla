---------------------------- MODULE UsersAccess ----------------------------
(***************************************************************************)
(* What the users hash table is promised by the lock that guards it,       *)
(* without the mutex, semaphore, counter and event the lock is made of.    *)
(*                                                                         *)
(* ExclusiveSpec is the promise of the repository's README: many readers   *)
(* or one writer.  SharedSpec is the part of it that UsersLock keeps: the  *)
(* writers exclude each other, no reader comes in while a writer is in,    *)
(* and never more than MaxReaders readers are in.  They differ only in     *)
(* whether a writer may come in while readers are still there.             *)
(***************************************************************************)
EXTENDS Naturals, FiniteSets

CONSTANTS
  Threads,     (* the worker threads                             *)
  MaxReaders,  (* the most threads that may read at once         *)
  NoThread     (* not a thread: nobody is writing                *)

VARIABLES
  readers,     (* the threads that are reading the table         *)
  writer       (* the thread that is writing it, or NoThread     *)

vars == <<readers, writer>>

TypeOK ==
  /\ readers \in SUBSET Threads
  /\ writer \in Threads \cup {NoThread}

Init ==
  /\ readers = {}
  /\ writer = NoThread

StartRead(t) ==
  /\ writer = NoThread
  /\ t \notin readers
  /\ Cardinality(readers) < MaxReaders
  /\ readers' = readers \cup {t}
  /\ UNCHANGED writer

StopRead(t) ==
  /\ t \in readers
  /\ readers' = readers \ {t}
  /\ UNCHANGED writer

StartWrite(t) ==
  /\ writer = NoThread
  /\ t \notin readers
  /\ writer' = t
  /\ UNCHANGED readers

StopWrite(t) ==
  /\ writer = t
  /\ writer' = NoThread
  /\ UNCHANGED readers

SharedNext ==
  \E t \in Threads :
    StartRead(t) \/ StopRead(t) \/ StartWrite(t) \/ StopWrite(t)

ExclusiveNext ==
  \E t \in Threads :
    \/ StartRead(t)
    \/ StopRead(t)
    \/ readers = {} /\ StartWrite(t)
    \/ StopWrite(t)

SharedSpec == Init /\ [][SharedNext]_vars

ExclusiveSpec == Init /\ [][ExclusiveNext]_vars
=============================================================================
