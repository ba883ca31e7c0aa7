--------------------------- MODULE AtomicReplicas ---------------------------
(***************************************************************************)
(* What replication promises of one file on one node: it changes in single *)
(* steps, from one call's whole payload to another's, and only while the   *)
(* call that owns the payload is running.  A call reports only nodes that  *)
(* hold its payload at that moment.  Nothing is promised of a file that two *)
(* calls write at one time, and that file only.                             *)
(***************************************************************************)
CONSTANTS Nodes, Files, Callers, FileOf, Values, None

VARIABLES
  replica,    \* [Files -> [Nodes -> payload or None]]
  writing,    \* [Callers -> payload of the running call, or None]
  reported,   \* [Callers -> nodes the last call listed as replicated]
  contended   \* files written by two calls at one time

CONSTANT Damage   \* what a node may show of a contended file

avars == <<replica, writing, reported, contended>>

AInit ==
  /\ replica = [f \in Files |-> [n \in Nodes |-> None]]
  /\ writing = [c \in Callers |-> None]
  /\ reported = [c \in Callers |-> {}]
  /\ contended = {}

Begin(c) ==
  /\ writing[c] = None
  /\ \E v \in Values : writing' = [writing EXCEPT ![c] = v]
  /\ reported' = [reported EXCEPT ![c] = {}]
  /\ contended' = IF \E d \in Callers : writing[d] # None /\ FileOf[d] = FileOf[c]
                  THEN contended \cup {FileOf[c]} ELSE contended
  /\ UNCHANGED replica

Store(c, n) ==
  /\ writing[c] # None
  /\ \E x \in {writing[c]} \cup (IF FileOf[c] \in contended THEN Damage ELSE {}) :
       replica' = [replica EXCEPT ![FileOf[c]][n] = x]
  /\ UNCHANGED <<writing, reported, contended>>

Return(c) ==
  /\ writing[c] # None
  /\ writing' = [writing EXCEPT ![c] = None]
  /\ \E S \in SUBSET {n \in Nodes : \/ replica[FileOf[c]][n] = writing[c]
                                    \/ FileOf[c] \in contended} :
       reported' = [reported EXCEPT ![c] = S]
  /\ UNCHANGED <<replica, contended>>

\* A crash ends every call without a report; what was stored stays.
Abort ==
  /\ writing' = [c \in Callers |-> None]
  /\ reported' = [c \in Callers |-> {}]
  /\ UNCHANGED <<replica, contended>>

ANext ==
  \/ \E c \in Callers : Begin(c) \/ Return(c) \/ \E n \in Nodes : Store(c, n)
  \/ Abort

ASpec == AInit /\ [][ANext]_avars
=============================================================================
