---------------------------- MODULE PropertyStore ----------------------------
(***************************************************************************)
(* The properties under one key of one artifact                             *)
(* (internal/handlers/property_handler.go, service/property_service.go,     *)
(* repository/property_repository.go).                                      *)
(*                                                                          *)
(* Requests create, update, delete and read rows of artifact_properties.    *)
(* The table has no unique constraint on the key, so that a property has a  *)
(* single value rests on a look-up before the insert; updates carry the     *)
(* version they read.  A sensitive value is stored encrypted under a key    *)
(* that exists only in a map of the process, which no lock guards.          *)
(*                                                                          *)
(* A request stands for the value it brings, for the id of the row it       *)
(* creates and for the encryption key it generates.  Nobody creates a       *)
(* system property.                                                         *)
(***************************************************************************)
EXTENDS Naturals, FiniteSets

CONSTANTS
  Requests,   \* calls of the property routes
  None,       \* no row, no key, no flag, no answer
  Empty,      \* the value ""
  Plans       \* scenarios with their bounds: see Plan

\* A value, encrypted under the key of a request.
Cipher == [value: Requests, under: Requests]

\* What a request asks for.  row: the id it names; sensitive: the flag it
\* brings, or None; valued: whether it brings a value.
Ask == [kind: {"create"}, sensitive: BOOLEAN, multi: BOOLEAN]
  \cup [kind: {"update"}, row: Requests, sensitive: BOOLEAN \cup {None}, valued: BOOLEAN]
  \cup [kind: {"delete", "get", "list"}, row: Requests]

Plan == [asks: [Requests -> SUBSET Ask], faults: Nat, crashes: Nat]

ASSUME PropertyAssumption ==
  /\ None \notin Requests \cup BOOLEAN \cup Cipher /\ Empty \notin Requests \cup {None}
  /\ Plans \subseteq Plan

VARIABLES
  plan,      \* the scenario, with what is left of its bounds
  rows,      \* [Requests -> the row with that id, or None]
  ring,      \* encryptionKeys of the tenant: the key, or None
  pc,        \* [Requests -> where it is]
  ask,       \* [Requests -> what it asks for, or None]
  got,       \* [Requests -> the row it read, with its own changes, or None]
  key,       \* [Requests -> the key it was given, or None]
  answer,    \* [Requests -> the value it was answered, or None]
  beside,    \* history: pairs of requests that ran at the same time
  blind,     \* history: creations whose look-up failed
  rival,     \* history: keys generated while another was
  lost       \* history: keys the process ended with

vars == <<plan, rows, ring, pc, ask, got, key, answer, beside, blind, rival, lost>>

AtWork == {"checking", "reading", "lookup", "storing", "ready"}
Ended  == {"done", "refused", "dead"}

\* latest, by and flipped are history: the value last given to the property,
\* the updates the row holds, and whether an update without a value changed
\* the flag since.
Row == [plain: Requests \cup {Empty}, cipher: Cipher \cup {None}, sensitive: BOOLEAN,
        multi: BOOLEAN, version: Nat,
        latest: Requests, by: SUBSET Requests, flipped: BOOLEAN]

TypeOK ==
  /\ plan \in Plan
  /\ rows \in [Requests -> Row \cup {None}] /\ ring \in Requests \cup {None}
  /\ pc \in [Requests -> {"new"} \cup AtWork \cup Ended]
  /\ ask \in [Requests -> Ask \cup {None}] /\ got \in [Requests -> Row \cup {None}]
  /\ key \in [Requests -> Requests \cup {None}]
  /\ answer \in [Requests -> Requests \cup {Empty, None}]
  /\ beside \in SUBSET (Requests \X Requests)
  /\ {blind, rival, lost} \subseteq SUBSET Requests

Init ==
  /\ plan \in Plans
  /\ rows = [r \in Requests |-> None] /\ ring = None
  /\ pc = [r \in Requests |-> "new"]
  /\ ask = [r \in Requests |-> None] /\ got = [r \in Requests |-> None]
  /\ key = [r \in Requests |-> None] /\ answer = [r \in Requests |-> None]
  /\ beside = {} /\ blind = {} /\ rival = {} /\ lost = {}

Go(r, from, to) == pc[r] = from /\ pc' = [pc EXCEPT ![r] = to]

Fault == plan.faults > 0 /\ plan' = [plan EXCEPT !.faults = @ - 1]

Running == {r \in Requests : pc[r] \in AtWork}


-----------------------------------------------------------------------------
(* The service, up to the statement. *)

rest == <<rows, ring, got, key, answer, rival, lost>>

\* A single-valued creation looks for the key first.
Begin(r) ==
  /\ \E a \in plan.asks[r] :
       /\ a.kind # "create" => rows[a.row] # None
       /\ ask' = [ask EXCEPT ![r] = a]
       /\ Go(r, "new", IF a.kind # "create" THEN "reading"
                       ELSE IF ~a.multi THEN "checking"
                       ELSE IF a.sensitive THEN "lookup" ELSE "ready")
  /\ beside' = beside \cup ({r} \X Running) \cup (Running \X {r})
  /\ UNCHANGED <<plan, rest, blind>>

Checked(r) == IF ask[r].sensitive THEN "lookup" ELSE "ready"

\* Mutant: sensitive and other rows are not compared.
CheckSingles(r) ==
  /\ pc[r] = "checking"
  /\ LET same == {c \in Requests : rows[c] # None /\ rows[c].sensitive = ask[r].sensitive} IN
       \/ same # {} /\ Go(r, "checking", "refused") /\ UNCHANGED <<plan, blind>>
       \/ same = {} /\ Go(r, "checking", Checked(r)) /\ UNCHANGED <<plan, blind>>
  /\ UNCHANGED <<rest, ask, beside>>

\* GetByKey; an error of its own is taken for "there is none".
Check(r) ==
  /\ \/ /\ \E c \in Requests : rows[c] # None
        /\ Go(r, "checking", "refused") /\ UNCHANGED <<plan, blind>>
     \/ /\ \A c \in Requests : rows[c] = None
        /\ Go(r, "checking", Checked(r)) /\ UNCHANGED <<plan, blind>>
     \/ Go(r, "checking", Checked(r)) /\ Fault /\ blind' = blind \cup {r}
  /\ UNCHANGED <<rest, ask, beside>>

\* The row as r wants it: an update brings a flag, a value, both or neither.
Changed(r, row) ==
  IF ask[r].kind # "update" THEN row
  ELSE LET flag == IF ask[r].sensitive = None THEN row.sensitive ELSE ask[r].sensitive IN
    [plain     |-> IF ask[r].valued THEN r ELSE row.plain,
     cipher    |-> row.cipher,  multi |-> row.multi,  version |-> row.version,
     sensitive |-> flag,
     latest    |-> IF ask[r].valued THEN r ELSE row.latest,
     by        |-> row.by \cup {r},
     flipped   |-> ~ask[r].valued /\ (row.flipped \/ flag # row.sensitive)]

\* Mutant: only an update that brings the flag encrypts.
NeedsKeyIfFlagged(r, row) ==
  \/ ask[r].kind = "update" /\ ask[r].valued /\ ask[r].sensitive = TRUE
  \/ ask[r].kind \in {"get", "list"} /\ row.sensitive /\ row.cipher # None

NeedsKey(r, row) ==
  \/ ask[r].kind = "update" /\ ask[r].valued /\ row.sensitive
  \/ ask[r].kind \in {"get", "list"} /\ row.sensitive /\ row.cipher # None

Read(r) ==
  /\ pc[r] = "reading"
  /\ LET row == rows[ask[r].row] IN
       \/ row = None /\ Go(r, "reading", "refused") /\ UNCHANGED <<plan, got>>
       \/ /\ row # None
          /\ got' = [got EXCEPT ![r] = Changed(r, row)]
          /\ Go(r, "reading", IF NeedsKey(r, Changed(r, row)) THEN "lookup" ELSE "ready")
          /\ UNCHANGED plan
       \/ Go(r, "reading", "refused") /\ Fault /\ UNCHANGED got
  /\ UNCHANGED <<rows, ring, ask, key, answer, beside, blind, rival, lost>>

\* getOrCreateEncryptionKey, for encryption and for decryption alike.
KeyFound(r) ==
  /\ ring # None /\ Go(r, "lookup", "ready")
  /\ key' = [key EXCEPT ![r] = ring]
  /\ UNCHANGED <<plan, rows, ring, ask, got, answer, beside, blind, rival, lost>>

Storing == {r \in Requests : pc[r] = "storing"}

\* Mutant: a key is generated for every use.
KeyAlwaysMade(r) ==
  /\ Go(r, "lookup", "storing")
  /\ key' = [key EXCEPT ![r] = r]
  /\ rival' = IF Storing = {} THEN rival ELSE rival \cup Storing \cup {r}
  /\ UNCHANGED <<plan, rows, ring, ask, got, answer, beside, blind, lost>>

KeyMissing(r) ==
  /\ ring = None /\ Go(r, "lookup", "storing")
  /\ key' = [key EXCEPT ![r] = r]
  /\ rival' = IF Storing = {} THEN rival ELSE rival \cup Storing \cup {r}
  /\ UNCHANGED <<plan, rows, ring, ask, got, answer, beside, blind, lost>>

StoreKey(r) ==
  /\ Go(r, "storing", "ready")
  /\ ring' = key[r]
  /\ UNCHANGED <<plan, rows, ask, got, key, answer, beside, blind, rival, lost>>

-----------------------------------------------------------------------------
(* The statement, and the answer. *)

after == <<ring, ask, got, key, beside, blind, rival, lost>>

\* An encrypted value takes the place of the plain one.
Sealed(r, row) ==
  IF key[r] = None THEN row
  ELSE [plain |-> Empty, cipher |-> [value |-> r, under |-> key[r]],
        sensitive |-> row.sensitive, multi |-> row.multi, version |-> row.version,
        latest |-> row.latest, by |-> row.by, flipped |-> row.flipped]

New(r) == [plain |-> r, cipher |-> None, sensitive |-> ask[r].sensitive,
           multi |-> ask[r].multi, version |-> 1, latest |-> r, by |-> {}, flipped |-> FALSE]

Fails(r) == Go(r, "ready", "refused") /\ Fault /\ UNCHANGED rows

Insert(r) ==
  /\ pc[r] = "ready" /\ ask[r].kind = "create"
  /\ \/ /\ Go(r, "ready", "done")
        /\ rows' = [rows EXCEPT ![r] = Sealed(r, New(r))]
        /\ UNCHANGED plan
     \/ Fails(r)
  /\ UNCHANGED <<after, answer>>

\* Mutant: the update does not ask for the version.
UpdateAny(r) ==
  /\ pc[r] = "ready" /\ ask[r].kind = "update"
  /\ LET id == ask[r].row  new == Sealed(r, got[r]) IN
       \/ /\ rows[id] # None
          /\ Go(r, "ready", "done")
          /\ rows' = [rows EXCEPT ![id] = [new EXCEPT !.version = rows[id].version + 1]]
          /\ UNCHANGED plan
       \/ rows[id] = None /\ Go(r, "ready", "refused") /\ UNCHANGED <<plan, rows>>
       \/ Fails(r)
  /\ UNCHANGED <<after, answer>>

Update(r) ==
  /\ pc[r] = "ready" /\ ask[r].kind = "update"
  /\ LET id == ask[r].row  new == Sealed(r, got[r]) IN
       \/ /\ rows[id] # None /\ rows[id].version = got[r].version
          /\ Go(r, "ready", "done")
          /\ rows' = [rows EXCEPT ![id] = [new EXCEPT !.version = @ + 1]]
          /\ UNCHANGED plan
       \/ /\ ~(rows[id] # None /\ rows[id].version = got[r].version)
          /\ Go(r, "ready", "refused") /\ UNCHANGED <<plan, rows>>
       \/ Fails(r)
  /\ UNCHANGED <<after, answer>>

Delete(r) ==
  /\ pc[r] = "ready" /\ ask[r].kind = "delete"
  /\ LET id == ask[r].row IN
       \/ /\ Go(r, "ready", IF rows[id] # None THEN "done" ELSE "refused")
          /\ rows' = [rows EXCEPT ![id] = None]
          /\ UNCHANGED plan
       \/ Fails(r)
  /\ UNCHANGED <<after, answer>>

\* A value that cannot be decrypted is an error of GetProperty; a list shows
\* what the row has in the clear.
Answer(r) ==
  /\ pc[r] = "ready" /\ ask[r].kind \in {"get", "list"}
  /\ LET row == got[r]
         opens == key[r] # None /\ key[r] = row.cipher.under IN
       \/ /\ opens /\ Go(r, "ready", "done")
          /\ answer' = [answer EXCEPT ![r] = row.cipher.value]
       \/ /\ ~opens /\ key[r] # None /\ ask[r].kind = "get"
          /\ Go(r, "ready", "refused") /\ UNCHANGED answer
       \/ /\ key[r] = None \/ (~opens /\ ask[r].kind = "list")
          /\ Go(r, "ready", "done")
          /\ answer' = [answer EXCEPT ![r] = row.plain]
  /\ UNCHANGED <<plan, rows, after>>

-----------------------------------------------------------------------------
\* The process ends and comes back: requests and keys are gone.
Restart ==
  /\ pc' = [r \in Requests |-> IF pc[r] \in AtWork THEN "dead" ELSE pc[r]]
  /\ ring' = None
  /\ lost' = lost \cup {r \in Requests : key[r] = r}
  /\ UNCHANGED <<rows, ask, got, key, answer, beside, blind, rival>>

Crash == plan.crashes > 0 /\ plan' = [plan EXCEPT !.crashes = @ - 1] /\ Restart

\* "fatal error: concurrent map writes", which Go's runtime may notice.
ConcurrentMapAccess ==
  /\ \E r, q \in Requests : r # q /\ pc[r] = "storing" /\ pc[q] \in {"storing", "lookup"}
  /\ Restart /\ UNCHANGED plan

Next ==
  \/ \E r \in Requests :
       \/ Begin(r) \/ Check(r) \/ Read(r)
       \/ KeyFound(r) \/ KeyMissing(r) \/ StoreKey(r)
       \/ Insert(r) \/ Update(r) \/ Delete(r) \/ Answer(r)
  \/ Crash \/ ConcurrentMapAccess

Spec == Init /\ [][Next]_vars
-----------------------------------------------------------------------------
(* Properties. *)

\* "Check if property already exists (for single-value properties)": of two
\* single-valued rows under the key, the creations ran side by side or one
\* could not look.
SingleValueIsSingle ==
  \A c, d \in Requests :
    c # d /\ rows[c] # None /\ rows[d] # None /\ ~rows[c].multi /\ ~rows[d].multi
    => <<c, d>> \in beside \/ {c, d} \cap blind # {}

\* "Optimistic locking": an update that was acknowledged is in the row for as
\* long as there is one; nobody who had not read it wrote over it.
AcknowledgedUpdatesStay ==
  \A u \in Requests :
    pc[u] = "done" /\ ask[u].kind = "update" /\ rows[ask[u].row] # None
    => u \in rows[ask[u].row].by

\* "Sensitive properties are encrypted at rest": a sensitive row has its value
\* in encrypted form only, unless it became sensitive without a new value.
SensitiveIsEncrypted ==
  \A c \in Requests :
    rows[c] # None /\ rows[c].sensitive /\ ~rows[c].flipped
    => /\ rows[c].plain = Empty /\ rows[c].cipher # None
       /\ rows[c].cipher.value = rows[c].latest

\* What a reader is told is the value last given to the row it read, whatever
\* was encrypted, replaced and declared sensitive or not on the way: an older
\* encrypted value in the row is never mistaken for it, unless the flag was
\* changed without a value.  A list may say "" where the key is not the one.
AnswersAreCurrent ==
  \A r \in Requests :
    pc[r] = "done" /\ ask[r].kind \in {"get", "list"} /\ ~got[r].flipped
    => \/ answer[r] = got[r].latest
       \/ /\ ask[r].kind = "list" /\ answer[r] = Empty
          /\ got[r].sensitive /\ got[r].cipher.under # key[r]

\* What is stored encrypted can be read back by this process, unless its key
\* ended with an earlier one or was generated while another was.
SealedValuesCanBeOpened ==
  \A c \in Requests :
    rows[c] # None /\ rows[c].cipher # None
    => rows[c].cipher.under \in {ring} \cup lost \cup rival
=============================================================================
