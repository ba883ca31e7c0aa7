--------------------------- MODULE PropertyProofs ---------------------------
(* Proofs about PropertyStore, for any set of requests and every plan.      *)
EXTENDS PropertyStore, TLAPS

\* The types that the proofs use of the state.
Typed ==
  /\ plan \in Plan
  /\ rows \in [Requests -> Row \cup {None}] /\ ring \in Requests \cup {None}
  /\ pc \in [Requests -> {"new"} \cup AtWork \cup Ended]
  /\ ask \in [Requests -> Ask \cup {None}] /\ got \in [Requests -> Row \cup {None}]
  /\ key \in [Requests -> Requests \cup {None}]
  /\ answer \in [Requests -> Requests \cup {Empty, None}]
  /\ beside \in SUBSET (Requests \X Requests)
  /\ blind \in SUBSET Requests /\ rival \in SUBSET Requests /\ lost \in SUBSET Requests

\* A request has read what it works on, or passed its check.
Past(r) == pc[r] \in {"lookup", "storing", "ready"}
Kind(r, k) == ask[r].kind = k

\* Whether a request encrypts or decrypts.
Keyed(r) == IF Kind(r, "create") THEN ask[r].sensitive ELSE NeedsKey(r, got[r])

\* What a request is at, and has, by its place in the code.
Stage(r) ==
  /\ pc[r] # "new" => ask[r] \in Ask
  /\ pc[r] = "checking" => Kind(r, "create")
  /\ pc[r] = "reading" => ~Kind(r, "create")
  /\ Past(r) /\ ~Kind(r, "create") => got[r] \in Row
  /\ pc[r] \in {"new", "checking", "reading", "lookup"} => key[r] = None
  /\ pc[r] = "storing" => key[r] = r
  /\ pc[r] \in {"lookup", "storing"} => Keyed(r)
  /\ pc[r] = "ready" => (key[r] # None <=> Keyed(r))
Stages == \A r \in Requests : Stage(r)

\* A row was created by the request with its id, before anyone named it.
Maker(r) ==
  /\ rows[r] # None => pc[r] = "done" /\ Kind(r, "create") /\ rows[r].multi = ask[r].multi
  /\ pc[r] # "new" /\ ~Kind(r, "create") =>
       pc[ask[r].row] = "done" /\ Kind(ask[r].row, "create")
  /\ Past(r) /\ ~Kind(r, "create") => got[r].multi = ask[ask[r].row].multi
RowsHaveMakers == \A r \in Requests : Maker(r)

Makes == Typed /\ Stages /\ RowsHaveMakers

\* Requests that run at the same time know of each other, and a row that is
\* there although a single-valued creation passed its check came meanwhile.
RunnersAreBeside ==
  \A r, q \in Running : r # q => <<r, q>> \in beside
SinglesLooked ==
  \A r, c \in Requests :
    r # c /\ Past(r) /\ Kind(r, "create") /\ ~ask[r].multi /\ rows[c] # None
    => r \in blind \/ (<<r, c>> \in beside /\ <<c, r>> \in beside)

\* The version tells whether the row is still what an update read: then the
\* update knows of every one the row holds.
VersionTells ==
  \A u \in Requests :
    Past(u) /\ Kind(u, "update") /\ rows[ask[u].row] # None =>
      /\ u \in got[u].by
      /\ got[u].version <= rows[ask[u].row].version
      /\ got[u].version = rows[ask[u].row].version => rows[ask[u].row].by \subseteq got[u].by

\* A row shows its latest value in the clear or holds it encrypted, as its
\* flag says.
Shows(row) ==
  ~row.flipped =>
    /\ row.sensitive => /\ row.plain = Empty /\ row.cipher # None
                        /\ row.cipher.value = row.latest
    /\ ~row.sensitive => row.plain = row.latest
RowsShow == \A c \in Requests : rows[c] # None => Shows(rows[c])

\* So does what a request has read; an update that brings a value is about to
\* encrypt it where it has to.
ReadShows ==
  \A r \in Requests : Past(r) /\ ~Kind(r, "create") =>
    IF Kind(r, "update") /\ ask[r].valued /\ got[r].sensitive
    THEN got[r].latest = r ELSE Shows(got[r])

\* The keys that can be accounted for.  A generated key waits to be stored,
\* and it has rivals where another waits or was stored meanwhile.
Accounted == {ring} \cup lost \cup rival
KeysAreAccounted ==
  /\ ring # None => key[ring] = ring
  /\ \A r \in Requests : pc[r] = "ready" /\ key[r] # None => key[r] \in Accounted
  /\ \A r \in Requests : pc[r] = "storing" /\ ring # None => r \in rival /\ ring \in rival
  /\ \A r, q \in Requests : r # q /\ pc[r] = "storing" /\ pc[q] = "storing" => r \in rival
ReadIsSealedRight ==
  \A r \in Requests : Past(r) /\ ~Kind(r, "create") /\ got[r].cipher # None
                       => got[r].cipher.under \in Accounted

-----------------------------------------------------------------------------
(* The rows that the steps build. *)

\* What an update makes of the row it read.
LEMMA ChangedRow ==
  ASSUME NEW r \in Requests, ask[r] \in Ask, ask[r].kind = "update", NEW row \in Row
  PROVE  LET new == Changed(r, row) IN
         /\ new \in Row
         /\ new.cipher = row.cipher /\ new.multi = row.multi /\ new.version = row.version
         /\ new.by = row.by \cup {r}
         /\ ask[r].valued => /\ new.plain = r /\ new.latest = r /\ new.flipped = FALSE
         /\ ~ask[r].valued => /\ new.plain = row.plain /\ new.latest = row.latest
                              /\ ~new.flipped => new.sensitive = row.sensitive /\ ~row.flipped
BY PropertyAssumption DEF PropertyAssumption, Changed, Row, Ask

\* Nobody else changes what it read.
LEMMA UnchangedRow ==
  ASSUME NEW r \in Requests, ask[r].kind # "update", NEW row PROVE Changed(r, row) = row
BY DEF Changed

\* What a creation inserts before it is sealed.
LEMMA NewRow ==
  ASSUME NEW r \in Requests, ask[r] \in Ask, ask[r].kind = "create"
  PROVE  LET new == New(r) IN
         /\ new \in Row /\ new.plain = r /\ new.cipher = None
         /\ new.sensitive = ask[r].sensitive /\ new.multi = ask[r].multi
         /\ new.latest = r /\ new.flipped = FALSE
BY DEF New, Row, Ask

\* Sealing replaces the plain value by the request's own, encrypted.
LEMMA SealedRow ==
  ASSUME NEW r \in Requests, NEW row \in Row, key[r] \in Requests \cup {None}
  PROVE  LET new == Sealed(r, row) IN
         /\ new \in Row
         /\ new.sensitive = row.sensitive /\ new.multi = row.multi /\ new.by = row.by
         /\ new.version = row.version /\ new.latest = row.latest /\ new.flipped = row.flipped
         /\ key[r] = None => new = row
         /\ key[r] # None => /\ new.plain = Empty /\ new.cipher # None
                             /\ new.cipher.value = r /\ new.cipher.under = key[r]
BY PropertyAssumption DEF PropertyAssumption, Sealed, Row, Cipher

-----------------------------------------------------------------------------
(* Types, stages and makers. *)

Step(r) ==
  \/ Begin(r) \/ Check(r) \/ Read(r) \/ KeyFound(r) \/ KeyMissing(r)
  \/ StoreKey(r) \/ Insert(r) \/ Update(r) \/ Delete(r) \/ Answer(r)

\* A request's step leaves what the others have.
Stays(q) ==
  /\ pc'[q] = pc[q] /\ ask'[q] = ask[q] /\ got'[q] = got[q]
  /\ key'[q] = key[q] /\ answer'[q] = answer[q]

LEMMA OthersStay ==
  ASSUME Typed, NEW r \in Requests, Step(r), NEW q \in Requests, q # r
  PROVE  Stays(q)
<1> USE DEF Typed, Stays, Go, rest, after
<1>1. CASE Begin(r) BY <1>1 DEF Begin
<1>2. CASE Check(r) BY <1>2 DEF Check
<1>3. CASE Read(r) BY <1>3 DEF Read
<1>4. CASE KeyFound(r) BY <1>4 DEF KeyFound
<1>5. CASE KeyMissing(r) BY <1>5 DEF KeyMissing
<1>6. CASE StoreKey(r) BY <1>6 DEF StoreKey
<1>7. CASE Insert(r) BY <1>7 DEF Insert, Fails
<1>8. CASE Update(r) BY <1>8 DEF Update, Fails
<1>9. CASE Delete(r) BY <1>9 DEF Delete, Fails
<1>10. CASE Answer(r) BY <1>10 DEF Answer
<1> HIDE DEF Stays
<1> QED BY <1>1, <1>2, <1>3, <1>4, <1>5, <1>6, <1>7, <1>8, <1>9, <1>10 DEF Step

LEMMA InitMakes == Init => Makes
BY PropertyAssumption
   DEF PropertyAssumption, Init, Makes, Typed, Stages, Stage, RowsHaveMakers, Maker, Past,
       Kind, AtWork, Ended

\* A step that may use up one of the scenario's faults leaves a scenario.
LEMMA FaultKeepsPlan == plan \in Plan /\ (Fault \/ UNCHANGED plan) => plan' \in Plan
BY DEF Plan, Fault

\* A read finds no row, or takes the row with the request's own changes.
LEMMA ReadSteps ==
  ASSUME Typed, Stages, NEW r \in Requests, Read(r), NEW row, row = rows[ask[r].row]
  PROVE  /\ pc[r] = "reading" /\ ask[r] \in Ask /\ row \in Row \cup {None}
         /\ \/ /\ pc' = [pc EXCEPT ![r] = "refused"]
               /\ got' = got /\ (Fault \/ UNCHANGED plan)
            \/ /\ row \in Row /\ row # None /\ Changed(r, row) \in Row
               /\ got' = [got EXCEPT ![r] = Changed(r, row)]
               /\ pc' = [pc EXCEPT ![r] = IF NeedsKey(r, Changed(r, row))
                                          THEN "lookup" ELSE "ready"]
               /\ UNCHANGED plan
<1>1. pc[r] = "reading" /\ ask[r] \in Ask /\ ask[r].row \in Requests
  BY DEF Read, Stages, Stage, Ask, Kind
<1>2. row \in Row \cup {None} BY <1>1 DEF Typed
<1>3. row \in Row => Changed(r, row) \in Row
  <2>1. CASE ask[r].kind = "update" BY <1>1, <2>1, ChangedRow
  <2>2. CASE ask[r].kind # "update" BY <2>2, UnchangedRow
  <2> QED BY <2>1, <2>2
<1> QED BY <1>1, <1>2, <1>3 DEF Read, Go

LEMMA StepKeepsTyped ==
  ASSUME Makes, NEW r \in Requests, Step(r) PROVE Typed'
<1> USE PropertyAssumption
    DEF PropertyAssumption, Makes, Typed, AtWork, Ended, Go, rest, after
<1>1. CASE Begin(r)
  <2>1. PICK a \in plan.asks[r] :
          /\ ask' = [ask EXCEPT ![r] = a]
          /\ pc' = [pc EXCEPT ![r] = IF a.kind # "create" THEN "reading"
                                     ELSE IF ~a.multi THEN "checking"
                                     ELSE IF a.sensitive THEN "lookup" ELSE "ready"]
    BY <1>1 DEF Begin
  <2>2. a \in Ask BY <2>1 DEF Plan
  <2>3. Running \subseteq Requests BY DEF Running
  <2> QED BY <1>1, <2>1, <2>2, <2>3 DEF Begin
<1>2. CASE Check(r) BY <1>2, FaultKeepsPlan DEF Check, Checked
<1>3. CASE Read(r)
  <2>1. plan' \in Plan BY <1>3, ReadSteps, FaultKeepsPlan
  <2> QED BY <1>3, <2>1, ReadSteps DEF Read
<1>4. CASE KeyFound(r) BY <1>4 DEF KeyFound
<1>5. CASE KeyMissing(r) BY <1>5 DEF KeyMissing, Storing
<1>6. CASE StoreKey(r) BY <1>6 DEF StoreKey
<1>7. CASE Insert(r)
  <2>1. New(r) \in Row
    BY <1>7, NewRow DEF Insert, Stages, Stage
  <2>2. Sealed(r, New(r)) \in Row
    BY <2>1, SealedRow
  <2> QED BY <1>7, <2>2, FaultKeepsPlan DEF Insert, Fails
<1>8. CASE Update(r)
  <2>1. got[r] \in Row BY <1>8 DEF Update, Stages, Stage, Past, Kind
  <2>2. Sealed(r, got[r]) \in Row
    BY <2>1, SealedRow
  <2>3. [Sealed(r, got[r]) EXCEPT !.version = @ + 1] \in Row
    BY <2>2 DEF Row
  <2> QED BY <1>8, <2>3, FaultKeepsPlan DEF Update, Fails
<1>9. CASE Delete(r) BY <1>9, FaultKeepsPlan DEF Delete, Fails
<1>10. CASE Answer(r)
  <2>1. got[r] \in Row BY <1>10 DEF Answer, Stages, Stage, Past, Kind
  <2>2. key[r] # None => got[r].cipher # None
    BY <1>10 DEF Answer, Stages, Stage, Keyed, Kind, NeedsKey
  <2>3. got[r].plain \in Requests \cup {Empty} /\ (key[r] # None => got[r].cipher.value \in Requests)
    BY <2>1, <2>2 DEF Row, Cipher
  <2> QED BY <1>10, <2>3 DEF Answer
<1> QED BY <1>1, <1>2, <1>3, <1>4, <1>5, <1>6, <1>7, <1>8, <1>9, <1>10 DEF Step

\* Who has what it had is at the stage it was at.
LEMMA StageStays == ASSUME NEW q \in Requests, Stage(q), Stays(q) PROVE Stage(q)'
BY DEF Stage, Stays, Past, Kind, Keyed, NeedsKey

LEMMA StepKeepsStages ==
  ASSUME Makes, NEW r \in Requests, Step(r) PROVE Stages'
<1> SUFFICES Stage(r)'
  BY OthersStay, StageStays DEF Stages, Makes
<1>0. Stage(r) /\ Typed BY DEF Makes, Stages
<1> USE DEF Stage, Typed, Past, Kind, Keyed, AtWork, Ended, Go, rest, after
<1>1. CASE Begin(r) BY <1>0, <1>1 DEF Begin, Plan
<1>2. CASE Check(r) BY <1>0, <1>2 DEF Check, Checked
<1>3. CASE Read(r)
  <2>1. ask'[r] = ask[r] /\ key'[r] = key[r] BY <1>3 DEF Read
  <2>2. NeedsKey(r, got[r])' <=> NeedsKey(r, got'[r])
    BY <2>1 DEF NeedsKey
  <2>3. \/ pc'[r] = "refused"
        \/ got'[r] \in Row /\ pc'[r] = IF NeedsKey(r, got'[r]) THEN "lookup" ELSE "ready"
    BY <1>3, ReadSteps DEF Makes
  <2> QED BY <1>0, <1>3, <2>1, <2>2, <2>3 DEF Read
<1>4. CASE KeyFound(r) BY <1>0, <1>4, PropertyAssumption DEF KeyFound, NeedsKey, PropertyAssumption
<1>5. CASE KeyMissing(r) BY <1>0, <1>5 DEF KeyMissing, NeedsKey
<1>6. CASE StoreKey(r) BY <1>0, <1>6, PropertyAssumption DEF StoreKey, NeedsKey, PropertyAssumption
<1>7. CASE Insert(r) BY <1>0, <1>7 DEF Insert, Fails
<1>8. CASE Update(r) BY <1>0, <1>8 DEF Update, Fails
<1>9. CASE Delete(r) BY <1>0, <1>9 DEF Delete, Fails
<1>10. CASE Answer(r) BY <1>0, <1>10 DEF Answer
<1> QED BY <1>1, <1>2, <1>3, <1>4, <1>5, <1>6, <1>7, <1>8, <1>9, <1>10 DEF Step

\* Only a creation puts a row where none was; an update keeps its flags' kind.
LEMMA RowSteps ==
  ASSUME Makes, NEW r \in Requests, Step(r), NEW c \in Requests
  PROVE  \/ rows'[c] = rows[c]
         \/ /\ Insert(r) /\ c = r /\ pc[r] = "ready" /\ pc' = [pc EXCEPT ![r] = "done"]
            /\ rows'[c] = Sealed(r, New(r))
         \/ /\ Update(r) /\ c = ask[r].row /\ pc[r] = "ready" /\ pc' = [pc EXCEPT ![r] = "done"]
            /\ rows[c] # None /\ rows[c] \in Row /\ rows[c].version = got[r].version
            /\ rows'[c] = [Sealed(r, got[r]) EXCEPT !.version = @ + 1]
         \/ Delete(r) /\ rows'[c] = None
<1> USE DEF Makes, Typed, Go, rest, after
<1>1. CASE Begin(r) BY <1>1 DEF Begin
<1>2. CASE Check(r) BY <1>2 DEF Check
<1>3. CASE Read(r) BY <1>3 DEF Read
<1>4. CASE KeyFound(r) BY <1>4 DEF KeyFound
<1>5. CASE KeyMissing(r) BY <1>5 DEF KeyMissing
<1>6. CASE StoreKey(r) BY <1>6 DEF StoreKey
<1>7. CASE Insert(r) BY <1>7 DEF Insert, Fails
<1>8. CASE Update(r) BY <1>8 DEF Update, Fails
<1>9. CASE Delete(r) BY <1>9 DEF Delete, Fails
<1>10. CASE Answer(r) BY <1>10 DEF Answer
<1> QED BY <1>1, <1>2, <1>3, <1>4, <1>5, <1>6, <1>7, <1>8, <1>9, <1>10 DEF Step

\* Whoever has begun keeps what it asks for; who has ended stays ended.
LEMMA BegunStays ==
  ASSUME Makes, NEW r \in Requests, Step(r), NEW c \in Requests, pc[c] # "new"
  PROVE  ask'[c] = ask[c] /\ (pc[c] \in Ended => pc'[c] = pc[c])
<1>1. CASE c # r BY <1>1, OthersStay DEF Makes, Stays
<1>2. CASE c = r
  BY <1>2 DEF Step, Begin, Check, Read, KeyFound, KeyMissing, StoreKey, Insert, Update, Delete,
              Answer, Fails, Go, rest, after, Ended
<1> QED BY <1>1, <1>2

LEMMA StepKeepsMakers ==
  ASSUME Makes, NEW r \in Requests, Step(r) PROVE RowsHaveMakers'
<1> SUFFICES ASSUME NEW q \in Requests PROVE Maker(q)'
  BY DEF RowsHaveMakers
<1>0. Typed /\ (\A c \in Requests : Maker(c) /\ Stage(c))
  BY DEF Makes, RowsHaveMakers, Stages
<1>1. rows'[q] # None =>
        pc'[q] = "done" /\ Kind(q, "create")' /\ rows'[q].multi = ask'[q].multi
  <2>1. CASE rows'[q] = rows[q]
    BY <1>0, <2>1, BegunStays DEF Maker, Kind, Ended
  <2>2. CASE /\ Insert(r) /\ q = r /\ pc[r] = "ready" /\ pc' = [pc EXCEPT ![r] = "done"]
             /\ rows'[q] = Sealed(r, New(r))
    <3>1. ask[r] \in Ask /\ ask[r].kind = "create" /\ ask'[r] = ask[r]
      BY <1>0, <2>2, BegunStays DEF Insert, Stage
    <3>2. New(r) \in Row /\ New(r).multi = ask[r].multi BY <3>1, NewRow
    <3>3. rows'[q].multi = ask[r].multi BY <1>0, <2>2, <3>2, SealedRow DEF Typed
    <3> QED BY <1>0, <2>2, <3>1, <3>3 DEF Kind, Typed
  <2>3. CASE /\ Update(r) /\ q = ask[r].row /\ pc[r] = "ready" /\ rows[q] # None
             /\ rows'[q] = [Sealed(r, got[r]) EXCEPT !.version = @ + 1]
    <3>1. got[r] \in Row /\ got[r].multi = ask[q].multi
      BY <1>0, <2>3 DEF Update, Stage, Maker, Past, Kind
    <3>2. Sealed(r, got[r]) \in Row /\ Sealed(r, got[r]).multi = ask[q].multi
      BY <1>0, <3>1, SealedRow DEF Typed
    <3>3. rows'[q].multi = ask[q].multi BY <2>3, <3>2 DEF Row
    <3>4. pc[q] = "done" /\ Kind(q, "create") BY <1>0, <2>3 DEF Maker
    <3> QED BY <3>3, <3>4, BegunStays DEF Kind, Ended
  <2> QED BY <2>1, <2>2, <2>3, RowSteps
<1>2. pc'[q] # "new" /\ ~Kind(q, "create")' =>
        pc'[ask'[q].row] = "done" /\ Kind(ask[q].row, "create")'
  <2> SUFFICES ASSUME pc'[q] # "new", ~Kind(q, "create")'
      PROVE pc'[ask'[q].row] = "done" /\ ask'[ask'[q].row].kind = "create"
    BY DEF Kind
  <2>1. CASE pc[q] # "new"
    <3>1. ask'[q] = ask[q] /\ ask[q].kind # "create" BY <2>1, BegunStays DEF Kind
    <3>2. ask[q] \in Ask /\ ask[q].row \in Requests BY <1>0, <2>1, <3>1 DEF Stage, Ask
    <3>3. pc[ask[q].row] = "done" /\ ask[ask[q].row].kind = "create"
      BY <1>0, <2>1, <3>1 DEF Maker, Kind
    <3> QED BY <3>1, <3>2, <3>3, BegunStays DEF Ended
  <2>2. CASE pc[q] = "new"
    <3>1. q = r /\ Begin(r)
      <4>1. q = r BY <2>2, OthersStay DEF Makes, Stays
      <4> QED BY <2>2, <4>1 DEF Step, Check, Read, KeyFound, KeyMissing, StoreKey, Insert,
                                Update, Delete, Answer, Fails, Go
    <3>2. PICK a \in plan.asks[r] :
            ask' = [ask EXCEPT ![r] = a] /\ (a.kind # "create" => rows[a.row] # None)
      BY <3>1 DEF Begin
    <3>3. a \in Ask /\ ask'[q] = a /\ a.kind # "create" /\ a.row \in Requests
      BY <1>0, <3>1, <3>2 DEF Typed, Plan, Ask, Kind
    <3>4. pc[a.row] = "done" /\ ask[a.row].kind = "create"
      BY <1>0, <3>2, <3>3 DEF Maker, Kind
    <3> QED BY <3>3, <3>4, BegunStays DEF Ended
  <2> QED BY <2>1, <2>2
<1>3. Past(q)' /\ ~Kind(q, "create")' => got'[q].multi = ask'[ask'[q].row].multi
  <2> SUFFICES ASSUME pc'[q] \in {"lookup", "storing", "ready"}, ask'[q].kind # "create"
               PROVE  got'[q].multi = ask'[ask'[q].row].multi
    BY DEF Past, Kind
  <2>1. PICK c \in Requests : c = ask[q].row /\ pc[q] # "new" /\ ask'[q] = ask[q]
                              /\ pc[c] = "done" /\ ask'[c] = ask[c]
    <3>1. CASE pc[q] = "new"
      <4>1. q = r BY <3>1, OthersStay DEF Makes, Stays
      <4>2. Begin(r)
        BY <3>1, <4>1 DEF Step, Check, Read, KeyFound, KeyMissing, StoreKey, Insert,
                          Update, Delete, Answer, Fails, Go
      <4>3. PICK a \in plan.asks[r] :
              /\ ask' = [ask EXCEPT ![r] = a]
              /\ pc' = [pc EXCEPT ![r] = IF a.kind # "create" THEN "reading"
                                         ELSE IF ~a.multi THEN "checking"
                                         ELSE IF a.sensitive THEN "lookup" ELSE "ready"]
        BY <4>2 DEF Begin, Go
      <4> QED BY <1>0, <4>1, <4>3 DEF Typed
    <3>2. CASE pc[q] # "new"
      <4>1. ask'[q] = ask[q] /\ ask[q].kind # "create" BY <3>2, BegunStays
      <4>2. ask[q].row \in Requests BY <1>0, <3>2, <4>1 DEF Stage, Ask
      <4>3. pc[ask[q].row] = "done" BY <1>0, <3>2, <4>1 DEF Maker, Kind
      <4> QED BY <3>2, <4>1, <4>2, <4>3, BegunStays DEF Ended
    <3> QED BY <3>1, <3>2
  <2>2. CASE Past(q) /\ got'[q] = got[q]
    BY <1>0, <2>1, <2>2 DEF Maker, Kind
  <2>3. CASE q = r /\ Read(r)
    <3>1. rows[c] \in Row /\ rows[c] # None /\ got'[r] = Changed(r, rows[c]) /\ ask[r] \in Ask
      BY <1>0, <2>1, <2>3, ReadSteps DEF Makes, Typed
    <3>2. got'[r].multi = rows[c].multi
      <4>1. CASE ask[r].kind = "update"
        <5>1. Changed(r, rows[c]).multi = rows[c].multi BY <3>1, <4>1, ChangedRow
        <5> QED BY <3>1, <5>1
      <4>2. CASE ask[r].kind # "update" BY <3>1, <4>2, UnchangedRow
      <4> QED BY <4>1, <4>2
    <3> QED BY <1>0, <2>1, <2>3, <3>1, <3>2 DEF Maker
  <2>4. (Past(q) /\ got'[q] = got[q]) \/ (q = r /\ Read(r))
    <3>1. CASE q # r
      <4>1. Stays(q) BY <3>1, OthersStay DEF Makes
      <4> QED BY <4>1 DEF Stays, Past
    <3>2. CASE q = r /\ ~Read(r)
      <4>1. got' = got
        BY <3>2 DEF Step, Begin, Check, KeyFound, KeyMissing, StoreKey, Insert,
                    Update, Delete, Answer, rest, after
      <4>2. ~Begin(r) BY <2>1, <3>2 DEF Begin, Go
      <4>3. ask[r].kind # "create" BY <2>1, <3>2
      <4>4. pc[r] # "checking" BY <1>0, <4>3 DEF Stage, Kind
      <4>5. ~Check(r) BY <4>4 DEF Check, Go
      <4>6. pc[r] \in {"lookup", "storing", "ready"}
        BY <3>2, <4>2, <4>5
           DEF Step, KeyFound, KeyMissing, StoreKey, Insert, Update, Delete, Answer, Go
      <4> QED BY <3>2, <4>1, <4>6 DEF Past
    <3> QED BY <3>1, <3>2
  <2> QED BY <2>2, <2>3, <2>4
<1> QED BY <1>1, <1>2, <1>3 DEF Maker

\* When the process ends, requests at work are dead and the rest stays.
Ends == Restart /\ plan' \in Plan

LEMMA EndKeepsMakes == Makes /\ Ends => Makes'
<1> SUFFICES ASSUME Makes, Ends PROVE Makes'
  OBVIOUS
<1>1. \A r \in Requests : /\ pc'[r] = IF pc[r] \in AtWork THEN "dead" ELSE pc[r]
                          /\ ask'[r] = ask[r] /\ got'[r] = got[r] /\ key'[r] = key[r]
                          /\ rows'[r] = rows[r]
  BY DEF Makes, Typed, Ends, Restart
<1>2. Typed'
  BY DEF Makes, Typed, Ends, Restart, AtWork, Ended
<1>3. ASSUME NEW r \in Requests PROVE Stage(r)'
  BY <1>1 DEF Makes, Stages, Stage, Past, Kind, Keyed, NeedsKey, AtWork
<1>4. ASSUME NEW r \in Requests PROVE Maker(r)'
  <2>1. Maker(r) /\ (pc[r] # "new" /\ ask[r].kind # "create" => ask[r].row \in Requests)
    BY DEF Makes, Stages, Stage, RowsHaveMakers, Ask
  <2> QED BY <1>1, <2>1 DEF Maker, Past, Kind, AtWork
<1> QED BY <1>2, <1>3, <1>4 DEF Makes, Stages, RowsHaveMakers

LEMMA SameKeepsMakes == Makes /\ UNCHANGED vars => Makes'
BY DEF Makes, Typed, Stages, Stage, RowsHaveMakers, Maker, Past, Kind, Keyed, NeedsKey, vars

\* What Next does.
LEMMA NextSteps ==
  ASSUME Makes, Next PROVE Ends \/ \E r \in Requests : Step(r)
<1>1. CASE Crash
  <2>1. plan' \in Plan BY <1>1 DEF Crash, Makes, Typed, Plan
  <2> QED BY <1>1, <2>1 DEF Crash, Ends
<1>2. CASE ConcurrentMapAccess
  BY <1>2 DEF ConcurrentMapAccess, Ends, Makes, Typed
<1> QED BY <1>1, <1>2 DEF Next, Step

LEMMA MakesHolds == Spec => []Makes
<1>1. Makes /\ [Next]_vars => Makes'
  <2> SUFFICES ASSUME Makes, [Next]_vars PROVE Makes'
    OBVIOUS
  <2>1. ASSUME NEW r \in Requests, Step(r) PROVE Makes'
    BY <2>1, StepKeepsTyped, StepKeepsStages, StepKeepsMakers DEF Makes
  <2> QED BY <2>1, EndKeepsMakes, SameKeepsMakes, NextSteps
<1> QED BY <1>1, InitMakes, PTL DEF Spec

\* Type correctness: rows, requests and keys keep their form in every step.
THEOREM TypeCorrect == Spec => []TypeOK
<1>1. Makes => TypeOK
  BY DEF Makes, Typed, TypeOK
<1> QED BY <1>1, MakesHolds, PTL

-----------------------------------------------------------------------------
(* A property has one value. *)

SingleInv == RunnersAreBeside /\ SinglesLooked /\ SingleValueIsSingle

LEMMA StepKeepsSingle ==
  ASSUME Makes, SingleInv, NEW r \in Requests, Step(r) PROVE SingleInv'
<1>0. Typed /\ Typed' /\ (\A c \in Requests : Maker(c) /\ Stage(c))
  BY StepKeepsTyped DEF Makes, RowsHaveMakers, Stages
<1>1. RunnersAreBeside' /\ beside \subseteq beside'
  <2>1. CASE Begin(r)
    BY <1>0, <2>1 DEF SingleInv, RunnersAreBeside, Running, Begin, Go, Typed, AtWork
  <2>2. CASE ~Begin(r)
    <3>1. beside' = beside
      BY <2>2 DEF Step, Check, Read, KeyFound, KeyMissing, StoreKey, Insert, Update, Delete,
                  Answer, after
    <3>2. pc[r] \in AtWork
      BY <2>2 DEF Step, Check, Read, KeyFound, KeyMissing, StoreKey, Insert, Update, Delete,
                  Answer, Fails, Go, AtWork
    <3>3. \A q \in Requests : pc'[q] \in AtWork => pc[q] \in AtWork
      BY <3>2, <1>0, OthersStay DEF Stays
    <3> QED BY <3>1, <3>3 DEF SingleInv, RunnersAreBeside, Running
  <2> QED BY <2>1, <2>2
<1>2. blind \subseteq blind'
  <2>1. CASE Check(r) BY <2>1 DEF Check
  <2>2. CASE ~Check(r)
    BY <2>2 DEF Step, Begin, Read, KeyFound, KeyMissing, StoreKey, Insert, Update, Delete,
                Answer, after
  <2> QED BY <2>1, <2>2
\* A row that is there was there, or is the creation that r has just made.
<1>3. ASSUME NEW c \in Requests, rows'[c] # None
      PROVE  \/ rows[c] # None /\ pc[c] = "done"
             \/ c = r /\ Insert(r) /\ pc[r] = "ready" /\ Kind(r, "create")
  <2>1. \/ rows[c] # None
        \/ c = r /\ Insert(r) /\ pc[r] = "ready"
    BY <1>3, RowSteps
  <2> QED BY <1>0, <2>1 DEF Insert, Kind, Maker
<1>4. SinglesLooked'
  <2> SUFFICES ASSUME NEW q \in Requests, NEW c \in Requests, q # c, Past(q)',
                      Kind(q, "create")', ~ask'[q].multi, rows'[c] # None
               PROVE  q \in blind' \/ (<<q, c>> \in beside' /\ <<c, q>> \in beside')
    BY DEF SinglesLooked
  <2>1. CASE rows[c] # None /\ Past(q) /\ ask'[q] = ask[q]
    BY <1>1, <1>2, <2>1 DEF SingleInv, SinglesLooked, Kind
  <2>2. CASE rows[c] # None /\ ~(Past(q) /\ ask'[q] = ask[q])
    <3>1. q = r
      BY <2>2, OthersStay DEF Makes, Stays, Past
    <3>2. Begin(r) \/ Check(r) \/ Read(r)
      BY <2>2, <3>1 DEF Step, KeyFound, KeyMissing, StoreKey, Insert, Update, Delete, Answer,
                        Go, rest, after, Past
    <3>3. ~Begin(r)
      <4>1. SUFFICES ASSUME Begin(r) PROVE FALSE
        OBVIOUS
      <4>2. PICK a \in plan.asks[r] :
              /\ ask' = [ask EXCEPT ![r] = a]
              /\ pc' = [pc EXCEPT ![r] = IF a.kind # "create" THEN "reading"
                                         ELSE IF ~a.multi THEN "checking"
                                         ELSE IF a.sensitive THEN "lookup" ELSE "ready"]
        BY <4>1 DEF Begin, Go
      <4> QED BY <1>0, <3>1, <4>2 DEF Typed, Kind, Past
    <3>4. ~Read(r)
      BY <1>0, <3>1 DEF Read, Stage, Kind
    <3>5. Check(r) BY <3>2, <3>3, <3>4
    <3> QED BY <1>0, <2>2, <3>1, <3>5 DEF Check, Go, Past, Typed
  <2>3. CASE rows[c] = None
    <3>1. c = r /\ pc[r] = "ready" BY <1>3, <2>3
    <3>2. pc[q] = pc'[q] BY <3>1, OthersStay DEF Makes, Stays
    <3>3. q \in Running /\ r \in Running
      BY <3>1, <3>2 DEF Running, Past, AtWork
    <3> QED BY <1>1, <3>1, <3>3 DEF SingleInv, RunnersAreBeside
  <2> QED BY <2>1, <2>2, <2>3
<1>5. SingleValueIsSingle'
  <2> SUFFICES ASSUME NEW c \in Requests, NEW d \in Requests, c # d, rows'[c] # None,
                      rows'[d] # None, ~rows'[c].multi, ~rows'[d].multi
               PROVE  <<c, d>> \in beside' \/ {c, d} \cap blind' # {}
    BY DEF SingleValueIsSingle
  <2>1. \A e \in {c, d} : ~ask[e].multi /\ (rows[e] # None => ~rows[e].multi)
    <3> SUFFICES ASSUME NEW e \in {c, d} 
                 PROVE  ~ask[e].multi /\ (rows[e] # None => ~rows[e].multi)
      OBVIOUS
    <3>1. rows'[e].multi = ask'[e].multi
      BY StepKeepsMakers DEF RowsHaveMakers, Maker
    <3>2. pc[e] # "new" BY <1>3
    <3>3. ask'[e] = ask[e] BY <3>2, BegunStays
    <3> QED BY <1>0, <3>1, <3>3 DEF Maker
  <2>2. CASE rows[c] # None /\ rows[d] # None
    BY <1>1, <1>2, <2>1, <2>2 DEF SingleInv, SingleValueIsSingle
  <2>3. ASSUME NEW e \in {c, d}, NEW f \in {c, d}, e # f, e = r, pc[r] = "ready",
               Kind(r, "create"), rows[f] # None
        PROVE  r \in blind' \/ (<<e, f>> \in beside' /\ <<f, e>> \in beside')
    BY <1>1, <1>2, <2>1, <2>3 DEF SingleInv, SinglesLooked, Past
  <2> QED BY <1>3, <2>2, <2>3
<1> QED BY <1>1, <1>4, <1>5 DEF SingleInv

LEMMA EndKeepsSingle == Makes /\ SingleInv /\ Ends => SingleInv'
<1> SUFFICES ASSUME Makes, SingleInv, Ends PROVE SingleInv'
  OBVIOUS
<1>1. /\ UNCHANGED <<rows, ask, beside, blind>>
      /\ \A r \in Requests : pc'[r] = IF pc[r] \in AtWork THEN "dead" ELSE pc[r]
  BY DEF Makes, Typed, Ends, Restart
<1>2. RunnersAreBeside'
  BY <1>1 DEF SingleInv, RunnersAreBeside, Running, AtWork
<1> QED BY <1>1, <1>2 DEF SingleInv, SinglesLooked, SingleValueIsSingle, Past, Kind, AtWork

\* A property has one value: of two single-valued rows under the key, the
\* creations ran side by side or a look-up had failed.
THEOREM OneValue == Spec => []SingleValueIsSingle
<1>1. Init => SingleInv
  BY DEF Init, SingleInv, RunnersAreBeside, Running, SinglesLooked, SingleValueIsSingle,
         Past, AtWork
<1>2. Makes /\ SingleInv /\ [Next]_vars => SingleInv'
  <2> SUFFICES ASSUME Makes, SingleInv, [Next]_vars PROVE SingleInv'
    OBVIOUS
  <2>1. CASE UNCHANGED vars
    BY <2>1 DEF SingleInv, RunnersAreBeside, Running, SinglesLooked, SingleValueIsSingle,
                Past, Kind, vars
  <2> QED BY <2>1, StepKeepsSingle, EndKeepsSingle, NextSteps
<1>3. SingleInv => SingleValueIsSingle
  BY DEF SingleInv
<1> QED BY <1>1, <1>2, <1>3, MakesHolds, PTL DEF Spec

-----------------------------------------------------------------------------
(* Updates that were acknowledged stay. *)

UpdateInv == VersionTells /\ AcknowledgedUpdatesStay

\* What an update has read stays below the row's version, and is the row when
\* the versions are equal.
Tells(u) ==
  Past(u) /\ Kind(u, "update") /\ rows[ask[u].row] # None =>
    /\ u \in got[u].by
    /\ got[u].version <= rows[ask[u].row].version
    /\ got[u].version = rows[ask[u].row].version => rows[ask[u].row].by \subseteq got[u].by

LEMMA StepKeepsUpdates ==
  ASSUME Makes, UpdateInv, NEW r \in Requests, Step(r) PROVE UpdateInv'
<1>0. Typed /\ Typed' /\ (\A c \in Requests : Maker(c) /\ Stage(c) /\ Tells(c))
  BY StepKeepsTyped DEF Makes, RowsHaveMakers, Stages, UpdateInv, VersionTells, Tells
\* The row an update names was there before the update began, so nobody creates it.
<1>1. ASSUME NEW u \in Requests, pc[u] # "new", ask[u].kind = "update"
      PROVE  LET id == ask[u].row IN
             /\ id \in Requests /\ ask'[u] = ask[u]
             /\ \/ rows'[id] = rows[id]
                \/ rows'[id] = None
                \/ /\ r # u /\ Update(r) /\ rows[id] # None
                   /\ rows'[id].version = rows[id].version + 1 /\ rows'[id].by = got[r].by
                   /\ rows[id].by \subseteq got[r].by
                \/ /\ r = u /\ pc[u] = "ready" /\ pc'[u] = "done" /\ rows'[id].by = got[u].by
                   /\ rows[id] # None
  <2> DEFINE id == ask[u].row
  <2>1. id \in Requests /\ ask'[u] = ask[u]
    BY <1>0, <1>1, BegunStays DEF Stage, Ask
  <2>2. pc[id] = "done" BY <1>0, <1>1 DEF Maker, Kind
  <2>3. CASE /\ Update(r) /\ id = ask[r].row /\ pc[r] = "ready"
             /\ pc' = [pc EXCEPT ![r] = "done"] /\ rows[id] # None /\ rows[id] \in Row
             /\ rows[id].version = got[r].version
             /\ rows'[id] = [Sealed(r, got[r]) EXCEPT !.version = @ + 1]
    <3>1. ask[r].kind = "update" /\ got[r] \in Row
      BY <1>0, <2>3 DEF Update, Stage, Past, Kind
    <3>2. key[r] \in Requests \cup {None} BY <1>0 DEF Typed
    <3>3. Sealed(r, got[r]) \in Row /\ Sealed(r, got[r]).version = got[r].version
          /\ Sealed(r, got[r]).by = got[r].by
      BY <3>1, <3>2, SealedRow
    <3>4. rows'[id].version = rows[id].version + 1 /\ rows'[id].by = got[r].by
      BY <2>3, <3>3 DEF Row
    <3>5. rows[id].by \subseteq got[r].by
      BY <1>0, <2>3, <3>1 DEF Tells, Past, Kind
    <3> QED BY <1>0, <2>1, <2>3, <3>4, <3>5 DEF Typed
  <2> QED BY <2>1, <2>2, <2>3, RowSteps
<1>2. ASSUME NEW u \in Requests PROVE Tells(u)'
  <2> SUFFICES ASSUME Past(u)', Kind(u, "update")', rows'[ask'[u].row] # None
               PROVE  /\ u \in got'[u].by
                      /\ got'[u].version <= rows'[ask'[u].row].version
                      /\ got'[u].version = rows'[ask'[u].row].version
                           => rows'[ask'[u].row].by \subseteq got'[u].by
    BY DEF Tells
  <2>1. CASE u # r
    <3>1. Stays(u) BY <2>1, OthersStay DEF Makes
    <3>2. Past(u) /\ Kind(u, "update") /\ pc[u] # "new"
      BY <3>1 DEF Stays, Past, Kind
    <3>3. got[u] \in Row BY <1>0, <3>2 DEF Stage, Kind
    <3>4. \A c \in Requests : rows[c] # None => rows[c] \in Row BY <1>0 DEF Typed
    <3> QED BY <1>0, <1>1, <2>1, <3>1, <3>2, <3>3, <3>4 DEF Tells, Stays, Kind, Row
  <2>2. CASE u = r /\ pc[r] = "reading"
    <3>1. Read(r)
      BY <2>2 DEF Step, Begin, Check, KeyFound, KeyMissing, StoreKey, Insert, Update, Delete,
                  Answer, Fails, Go
    <3>2. rows' = rows /\ ask' = ask BY <3>1 DEF Read
    <3> DEFINE row == rows[ask[r].row]
    <3>3. row \in Row /\ got'[r] = Changed(r, row) /\ ask[r] \in Ask /\ ask[r].kind = "update"
      BY <1>0, <2>2, <3>1, <3>2, ReadSteps DEF Makes, Past, Kind, Typed
    <3>4. got'[r].version = row.version /\ got'[r].by = row.by \cup {r}
      <4> HIDE DEF row
      <4>1. r \in Requests /\ row \in Row /\ ask[r] \in Ask /\ ask[r].kind = "update"
        BY <3>3
      <4>2. Changed(r, row).version = row.version
        BY <4>1 DEF Changed
      <4>3. Changed(r, row).by = row.by \cup {r}
        BY <4>1, ChangedRow
      <4> QED BY <3>3, <4>2, <4>3
    <3>5. row.version \in Nat BY <3>3 DEF Row
    <3> QED BY <2>2, <3>2, <3>4, <3>5
  <2>3. CASE u = r /\ pc[r] # "reading"
    <3>1. Past(r) /\ ask'[r] = ask[r] /\ got'[r] = got[r] /\ pc'[r] # "done"
      BY <1>0, <2>3
         DEF Step, Begin, Check, Read, KeyFound, KeyMissing, StoreKey, Insert, Update, Delete,
             Answer, Fails, Go, rest, after, Past, Kind, Stage, Typed
    <3>2. Kind(r, "update") /\ pc[r] # "new" BY <2>3, <3>1 DEF Kind, Past
    <3> QED BY <1>0, <1>1, <2>3, <3>1, <3>2 DEF Tells, Kind
  <2> QED BY <2>1, <2>2, <2>3
<1>3. AcknowledgedUpdatesStay'
  <2> SUFFICES ASSUME NEW u \in Requests, pc'[u] = "done", ask'[u].kind = "update",
                      rows'[ask'[u].row] # None
               PROVE  u \in rows'[ask'[u].row].by
    BY DEF AcknowledgedUpdatesStay
  <2>1. CASE pc[u] = "done"
    <3>1. ask'[u] = ask[u] /\ r # u
      BY <2>1, BegunStays
         DEF Step, Begin, Check, Read, KeyFound, KeyMissing, StoreKey, Insert, Update, Delete,
             Answer, Fails, Go
    <3> QED BY <1>1, <2>1, <3>1 DEF UpdateInv, AcknowledgedUpdatesStay
  <2>2. CASE pc[u] # "done"
    <3>1. u = r BY <2>2, OthersStay DEF Makes, Stays
    <3>2. Insert(r) \/ Update(r) \/ Delete(r) \/ Answer(r)
      BY <1>0, <3>1 DEF Step, Begin, Check, Read, KeyFound, KeyMissing, StoreKey, Go, Typed,
                        Checked
    <3>3. ask'[r] = ask[r] /\ pc[r] = "ready" /\ ask[r].kind = "update"
      BY <3>1, <3>2 DEF Insert, Update, Delete, Answer, after
    <3>4. Update(r) BY <3>2, <3>3 DEF Insert, Delete, Answer
    <3>5. /\ rows'[ask[r].row] = [Sealed(r, got[r]) EXCEPT !.version = @ + 1]
          /\ rows[ask[r].row] # None /\ rows[ask[r].row] \in Row
      BY <1>0, <2>2, <3>1, <3>3, <3>4 DEF Update, Fails, Go, Typed, Stage, Ask
    <3>6. got[r] \in Row /\ key[r] \in Requests \cup {None}
      BY <1>0, <3>3 DEF Stage, Past, Kind, Typed
    <3>7. Sealed(r, got[r]) \in Row /\ Sealed(r, got[r]).by = got[r].by
      BY <3>6, SealedRow
    <3>8. rows'[ask[r].row].by = got[r].by BY <3>5, <3>7 DEF Row
    <3>9. r \in got[r].by BY <1>0, <3>3, <3>5 DEF Tells, Past, Kind
    <3> QED BY <3>1, <3>3, <3>8, <3>9
  <2> QED BY <2>1, <2>2
<1> QED BY <1>2, <1>3 DEF UpdateInv, VersionTells, Tells

LEMMA EndKeepsUpdates == Makes /\ UpdateInv /\ Ends => UpdateInv'
<1> SUFFICES ASSUME Makes, UpdateInv, Ends PROVE UpdateInv'
  OBVIOUS
<1>1. /\ UNCHANGED <<rows, ask, got>>
      /\ \A r \in Requests : pc'[r] = IF pc[r] \in AtWork THEN "dead" ELSE pc[r]
  BY DEF Makes, Typed, Ends, Restart
<1> QED BY <1>1 DEF UpdateInv, VersionTells, AcknowledgedUpdatesStay, Past, Kind, AtWork

\* An update that was acknowledged stays in the row for as long as there is
\* one: whoever writes over it has read it.
THEOREM UpdatesStay == Spec => []AcknowledgedUpdatesStay
<1>1. Init => UpdateInv
  BY DEF Init, UpdateInv, VersionTells, AcknowledgedUpdatesStay, Past
<1>2. Makes /\ UpdateInv /\ [Next]_vars => UpdateInv'
  <2> SUFFICES ASSUME Makes, UpdateInv, [Next]_vars PROVE UpdateInv'
    OBVIOUS
  <2>1. CASE UNCHANGED vars
    BY <2>1 DEF UpdateInv, VersionTells, AcknowledgedUpdatesStay, Past, Kind, vars
  <2> QED BY <2>1, StepKeepsUpdates, EndKeepsUpdates, NextSteps
<1>3. UpdateInv => AcknowledgedUpdatesStay
  BY DEF UpdateInv
<1> QED BY <1>1, <1>2, <1>3, MakesHolds, PTL DEF Spec

-----------------------------------------------------------------------------
(* Sensitive values are encrypted, and readers are told the current value.  *)

ValueInv == RowsShow /\ ReadShows /\ AnswersAreCurrent

\* What r has read, as ReadShows says it.
Reads(r) ==
  Past(r) /\ ~Kind(r, "create") =>
    IF Kind(r, "update") /\ ask[r].valued /\ got[r].sensitive
    THEN got[r].latest = r ELSE Shows(got[r])

\* An update keeps a row that shows its value so, but for a value to encrypt.
LEMMA ChangedShows ==
  ASSUME NEW r \in Requests, ask[r] \in Ask, NEW row \in Row, Shows(row), ~Kind(r, "create")
  PROVE  LET new == Changed(r, row) IN
         IF Kind(r, "update") /\ ask[r].valued /\ new.sensitive
         THEN new.latest = r ELSE Shows(new)
<1> DEFINE new == Changed(r, row)
<1> SUFFICES IF Kind(r, "update") /\ ask[r].valued /\ new.sensitive
             THEN new.latest = r ELSE Shows(new)
  OBVIOUS
<1>1. CASE Kind(r, "update")
  <2>1. /\ new \in Row
        /\ new.cipher = row.cipher
        /\ ask[r].valued => /\ new.plain = r /\ new.latest = r
        /\ ~ask[r].valued => /\ new.plain = row.plain /\ new.latest = row.latest
                             /\ ~new.flipped => new.sensitive = row.sensitive /\ ~row.flipped
    BY <1>1, ChangedRow DEF Kind
  <2> HIDE DEF new
  <2>2. CASE ask[r].valued BY <1>1, <2>1, <2>2 DEF Shows, Row
  <2>3. CASE ~ask[r].valued BY <1>1, <2>1, <2>3 DEF Shows, Row
  <2> QED BY <2>2, <2>3
<1>2. CASE ~Kind(r, "update")
  <2>1. new = row BY <1>2, UnchangedRow DEF Kind
  <2> QED BY <1>2, <2>1
<1> QED BY <1>1, <1>2

LEMMA StepKeepsValues ==
  ASSUME Makes, ValueInv, NEW r \in Requests, Step(r) PROVE ValueInv'
<1>0. Typed /\ Typed' /\ (\A c \in Requests : Maker(c) /\ Stage(c) /\ Reads(c))
  BY StepKeepsTyped DEF Makes, RowsHaveMakers, Stages, ValueInv, ReadShows, Reads
<1>1. ASSUME NEW c \in Requests, rows'[c] # None PROVE Shows(rows'[c])
  <2>1. CASE rows'[c] = rows[c]
    BY <1>1, <2>1 DEF ValueInv, RowsShow
  <2>2. CASE /\ Insert(r) /\ pc[r] = "ready" /\ rows'[c] = Sealed(r, New(r))
    <3>1. ask[r] \in Ask /\ ask[r].kind = "create" /\ key[r] \in Requests \cup {None}
          /\ (key[r] # None <=> ask[r].sensitive)
      BY <1>0, <2>2 DEF Insert, Stage, Typed, Keyed, Kind
    <3> DEFINE new == New(r)
    <3>2. new \in Row /\ new.plain = r /\ new.sensitive = ask[r].sensitive /\ new.latest = r
      BY <3>1, NewRow
    <3> HIDE DEF new
    <3> DEFINE sealed == Sealed(r, new)
    <3>3. /\ sealed.sensitive = new.sensitive /\ sealed.latest = new.latest
          /\ key[r] = None => sealed = new
          /\ key[r] # None => /\ sealed.plain = Empty /\ sealed.cipher # None
                              /\ sealed.cipher.value = r
      BY <3>1, <3>2, SealedRow
    <3>4. rows'[c] = sealed BY <2>2 DEF new
    <3> HIDE DEF sealed
    <3> QED BY <3>1, <3>2, <3>3, <3>4 DEF Shows
  <2>3. CASE /\ Update(r) /\ pc[r] = "ready"
             /\ rows'[c] = [Sealed(r, got[r]) EXCEPT !.version = @ + 1]
    <3>1. /\ ask[r] \in Ask /\ ask[r].kind = "update" /\ got[r] \in Row
          /\ key[r] \in Requests \cup {None}
          /\ key[r] # None <=> ask[r].valued /\ got[r].sensitive
      BY <1>0, <2>3 DEF Update, Stage, Typed, Keyed, Kind, Past, NeedsKey
    <3> DEFINE sealed == Sealed(r, got[r])
    <3>2. /\ sealed \in Row
          /\ sealed.sensitive = got[r].sensitive /\ sealed.latest = got[r].latest
          /\ key[r] = None => sealed = got[r]
          /\ key[r] # None => /\ sealed.plain = Empty /\ sealed.cipher # None
                              /\ sealed.cipher.value = r
      BY <3>1, SealedRow
    <3> HIDE DEF sealed
    <3>3. /\ rows'[c].sensitive = sealed.sensitive /\ rows'[c].latest = sealed.latest
          /\ rows'[c].plain = sealed.plain /\ rows'[c].cipher = sealed.cipher
          /\ rows'[c].flipped = sealed.flipped
      BY <2>3, <3>2 DEF Row, sealed
    <3>4. IF ask[r].valued /\ got[r].sensitive THEN got[r].latest = r ELSE Shows(got[r])
      BY <1>0, <2>3, <3>1 DEF Reads, Past, Kind
    <3> QED BY <3>1, <3>2, <3>3, <3>4 DEF Shows
  <2> QED BY <1>1, <2>1, <2>2, <2>3, RowSteps
<1>2. ASSUME NEW q \in Requests PROVE Reads(q)'
  <2>1. CASE q # r
    <3>1. Stays(q) BY <2>1, OthersStay DEF Makes
    <3> QED BY <1>0, <3>1 DEF Stays, Reads, Past, Kind, Shows
  <2>2. CASE q = r /\ Read(r)
    <3>1. ask' = ask BY <2>2 DEF Read
    <3> DEFINE row == rows[ask[r].row]
    <3>2. CASE /\ row \in Row /\ row # None /\ got' = [got EXCEPT ![r] = Changed(r, row)]
      <4>1. ask[r] \in Ask /\ ask[r].row \in Requests /\ ~Kind(r, "create")
        BY <1>0, <2>2 DEF Read, Stage, Ask, Kind
      <4>2. Shows(row) BY <3>2, <4>1 DEF ValueInv, RowsShow
      <4>3. got'[r] = Changed(r, row) BY <1>0, <3>2 DEF Typed
      <4> HIDE DEF row
      <4>4. IF Kind(r, "update") /\ ask[r].valued /\ got'[r].sensitive
            THEN got'[r].latest = r ELSE Shows(got'[r])
        BY <3>2, <4>1, <4>2, <4>3, ChangedShows
      <4> QED BY <2>2, <3>1, <4>4 DEF Reads, Kind, Shows
    <3>3. CASE pc' = [pc EXCEPT ![r] = "refused"]
      BY <1>0, <2>2, <3>3 DEF Reads, Past, Typed
    <3> QED BY <2>2, <3>2, <3>3, ReadSteps DEF Makes
  <2>3. CASE q = r /\ ~Read(r)
    <3>1. got' = got /\ (Past(r)' /\ ~Kind(r, "create")' => Past(r) /\ ask'[r] = ask[r])
      BY <1>0, <2>3
         DEF Step, Begin, Check, KeyFound, KeyMissing, StoreKey, Insert, Update, Delete,
             Answer, Fails, Go, rest, after, Past, Kind, Stage, Typed
    <3> QED BY <1>0, <2>3, <3>1 DEF Reads, Kind, Shows
  <2> QED BY <2>1, <2>2, <2>3
<1>3. AnswersAreCurrent'
  <2> SUFFICES ASSUME NEW q \in Requests, pc'[q] = "done", ask'[q].kind \in {"get", "list"},
                      ~got'[q].flipped
               PROVE  \/ answer'[q] = got'[q].latest
                      \/ /\ ask'[q].kind = "list" /\ answer'[q] = Empty
                         /\ got'[q].sensitive /\ got'[q].cipher.under # key'[q]
    BY DEF AnswersAreCurrent
  <2>1. CASE q # r
    <3>1. Stays(q) BY <2>1, OthersStay DEF Makes
    <3> QED BY <3>1 DEF Stays, ValueInv, AnswersAreCurrent
  <2>2. CASE q = r
    <3>1. Insert(r) \/ Update(r) \/ Delete(r) \/ Answer(r)
      BY <1>0, <2>2 DEF Step, Begin, Check, Read, KeyFound, KeyMissing, StoreKey, Go, Typed,
                        Checked
    <3>2. ask'[r] = ask[r] BY <3>1 DEF Insert, Update, Delete, Answer, after
    <3>3. Answer(r) BY <2>2, <3>1, <3>2 DEF Insert, Update, Delete
    <3>4. got' = got /\ key' = key /\ pc[r] = "ready" BY <3>3 DEF Answer, after
    <3>5. key[r] # None <=> got[r].sensitive /\ got[r].cipher # None
      BY <1>0, <2>2, <3>2, <3>4 DEF Stage, Keyed, Kind, NeedsKey
    <3>6. Shows(got[r]) BY <1>0, <2>2, <3>2, <3>4 DEF Reads, Past, Kind
    <3>7. \/ key[r] # None /\ key[r] = got[r].cipher.under /\ answer'[r] = got[r].cipher.value
          \/ /\ key[r] # None /\ key[r] # got[r].cipher.under /\ ask[r].kind = "list"
             /\ answer'[r] = got[r].plain
          \/ key[r] = None /\ answer'[r] = got[r].plain
      BY <1>0, <2>2, <3>3 DEF Answer, Go, Typed
    <3> QED BY <2>2, <3>2, <3>4, <3>5, <3>6, <3>7 DEF Shows
  <2> QED BY <2>1, <2>2
<1> QED BY <1>1, <1>2, <1>3 DEF ValueInv, RowsShow, ReadShows, Reads

LEMMA EndKeepsValues == Makes /\ ValueInv /\ Ends => ValueInv'
<1> SUFFICES ASSUME Makes, ValueInv, Ends PROVE ValueInv'
  OBVIOUS
<1>1. /\ UNCHANGED <<rows, ask, got, key, answer>>
      /\ \A r \in Requests : pc'[r] = IF pc[r] \in AtWork THEN "dead" ELSE pc[r]
  BY DEF Makes, Typed, Ends, Restart
<1> QED BY <1>1 DEF ValueInv, RowsShow, ReadShows, AnswersAreCurrent, Shows, Past, Kind, AtWork

LEMMA ValuesHold == Spec => []ValueInv
<1>1. Init => ValueInv
  BY DEF Init, ValueInv, RowsShow, ReadShows, AnswersAreCurrent, Past
<1>2. Makes /\ ValueInv /\ [Next]_vars => ValueInv'
  <2> SUFFICES ASSUME Makes, ValueInv, [Next]_vars PROVE ValueInv'
    OBVIOUS
  <2>1. CASE UNCHANGED vars
    BY <2>1 DEF ValueInv, RowsShow, ReadShows, AnswersAreCurrent, Shows, Past, Kind, vars
  <2> QED BY <2>1, StepKeepsValues, EndKeepsValues, NextSteps
<1> QED BY <1>1, <1>2, MakesHolds, PTL DEF Spec

\* "Sensitive properties are encrypted at rest", unless the flag was set
\* without a value.
THEOREM Encrypted == Spec => []SensitiveIsEncrypted
<1>1. ValueInv => SensitiveIsEncrypted
  BY DEF ValueInv, RowsShow, Shows, SensitiveIsEncrypted
<1> QED BY <1>1, ValuesHold, PTL

\* A reader is told the value last given to the row it read.
THEOREM ReadersAreTold == Spec => []AnswersAreCurrent
<1>1. ValueInv => AnswersAreCurrent
  BY DEF ValueInv
<1> QED BY <1>1, ValuesHold, PTL

-----------------------------------------------------------------------------
(* Encrypted values can be opened. *)

KeyInv == KeysAreAccounted /\ ReadIsSealedRight /\ SealedValuesCanBeOpened

\* The stages of the keys.
KeySteps(r) == KeyFound(r) \/ KeyMissing(r) \/ StoreKey(r)

LEMMA OtherStepsKeepKeys ==
  ASSUME Makes, NEW r \in Requests, Step(r), ~KeySteps(r)
  PROVE  UNCHANGED <<ring, key, lost, rival>> /\ pc[r] \notin {"lookup", "storing"}
BY DEF KeySteps, Step, Begin, Check, Read, Insert, Update, Delete, Answer, Fails, Go, rest, after

\* Nobody starts to store a key, or becomes ready with one, but by these.
LEMMA KeyStages ==
  ASSUME Makes, NEW r \in Requests, Step(r), ~KeySteps(r)
  PROVE  pc'[r] # "storing" /\ (pc'[r] = "ready" => key[r] = None)
<1>1. Typed /\ Stage(r) BY DEF Makes, Stages
<1>2. CASE Begin(r)
  <2>1. PICK a \in plan.asks[r] :
          pc' = [pc EXCEPT ![r] = IF a.kind # "create" THEN "reading"
                                  ELSE IF ~a.multi THEN "checking"
                                  ELSE IF a.sensitive THEN "lookup" ELSE "ready"]
    BY <1>2 DEF Begin, Go
  <2>2. key[r] = None BY <1>1, <1>2 DEF Begin, Go, Stage
  <2> QED BY <1>1, <2>1, <2>2 DEF Typed
<1>3. CASE Check(r) \/ Read(r)
  BY <1>1, <1>3 DEF Check, Checked, Read, Go, Stage, Typed
<1>4. CASE Insert(r) \/ Update(r) \/ Delete(r) \/ Answer(r)
  BY <1>1, <1>4 DEF Insert, Update, Delete, Answer, Fails, Go, Typed
<1> QED BY <1>2, <1>3, <1>4 DEF KeySteps, Step

\* No key that is accounted for is lost from the account.
LEMMA AccountGrows ==
  ASSUME Makes, KeysAreAccounted, NEW r \in Requests, Step(r), NEW k \in Requests, k \in Accounted
  PROVE  k \in Accounted'
<1>1. CASE ~KeySteps(r) BY <1>1, OtherStepsKeepKeys DEF Accounted
<1>2. CASE KeyFound(r) BY <1>2 DEF KeyFound, Accounted
<1>3. CASE KeyMissing(r) BY <1>3, PropertyAssumption DEF KeyMissing, Accounted, PropertyAssumption
<1>4. CASE StoreKey(r)
  BY <1>4, PropertyAssumption DEF StoreKey, Go, Accounted, KeysAreAccounted, PropertyAssumption
<1> QED BY <1>1, <1>2, <1>3, <1>4 DEF KeySteps

LEMMA StepKeepsAccount ==
  ASSUME Makes, KeysAreAccounted, NEW r \in Requests, Step(r)
  PROVE  KeysAreAccounted'
<1>0. Typed /\ Typed' /\ \A c \in Requests : Stage(c)
  BY StepKeepsTyped DEF Makes, Stages
<1>1. CASE ~KeySteps(r)
  <2>1. UNCHANGED <<ring, key, lost, rival>> BY <1>1, OtherStepsKeepKeys
  <2>2. \A q \in Requests : /\ pc'[q] = "storing" => pc[q] = "storing"
                            /\ pc'[q] = "ready" /\ key[q] # None => pc[q] = "ready"
    BY <1>0, <1>1, KeyStages, OthersStay DEF Stays
  <2> QED BY <2>1, <2>2 DEF KeysAreAccounted, Accounted
<1>2. CASE KeyFound(r)
  BY <1>0, <1>2, PropertyAssumption
     DEF KeyFound, Go, Typed, Stage, KeysAreAccounted, Accounted, PropertyAssumption
<1>3. CASE KeyMissing(r)
  <2>1. /\ ring' = ring /\ ring = None /\ lost' = lost /\ pc' = [pc EXCEPT ![r] = "storing"]
        /\ key' = [key EXCEPT ![r] = r]
        /\ rival \subseteq rival'
        /\ \A q \in Requests : q # r /\ pc[q] = "storing" => r \in rival' /\ q \in rival'
    BY <1>3 DEF KeyMissing, Go, Storing
  <2> QED BY <1>0, <2>1 DEF Typed, KeysAreAccounted, Accounted
<1>4. CASE StoreKey(r)
  <2>1. /\ ring' = r /\ pc[r] = "storing" /\ pc' = [pc EXCEPT ![r] = "ready"]
        /\ UNCHANGED <<key, lost, rival>> /\ key[r] = r
    BY <1>0, <1>4 DEF StoreKey, Go, Stage
  <2> QED BY <1>0, <2>1, PropertyAssumption
             DEF Typed, KeysAreAccounted, Accounted, PropertyAssumption
<1> QED BY <1>1, <1>2, <1>3, <1>4 DEF KeySteps

LEMMA StepKeepsKeys ==
  ASSUME Makes, KeyInv, NEW r \in Requests, Step(r) PROVE KeyInv'
<1>0. Typed /\ Typed' /\ (\A c \in Requests : Stage(c)) /\ KeysAreAccounted
  BY StepKeepsTyped DEF Makes, Stages, KeyInv
<1>1. KeysAreAccounted' BY <1>0, StepKeepsAccount
<1>2. ASSUME NEW c \in Requests, rows'[c] # None, rows'[c].cipher # None
      PROVE  rows'[c].cipher.under \in Accounted'
  <2>1. CASE rows'[c] = rows[c]
    <3>1. rows[c] \in Row BY <1>0, <1>2, <2>1 DEF Typed
    <3>2. rows[c].cipher.under \in Requests BY <1>2, <2>1, <3>1 DEF Row, Cipher
    <3>3. rows[c].cipher.under \in Accounted
      BY <1>2, <2>1 DEF KeyInv, SealedValuesCanBeOpened, Accounted
    <3> QED BY <1>0, <2>1, <3>2, <3>3, AccountGrows
  <2>2. ASSUME NEW row \in Row, pc[r] = "ready", rows'[c].cipher = Sealed(r, row).cipher,
               row.cipher # None => row.cipher.under \in Accounted
        PROVE  rows'[c].cipher.under \in Accounted'
    <3>1. key[r] \in Requests \cup {None} BY <1>0 DEF Typed
    <3>2. CASE key[r] = None
      <4>1. rows'[c].cipher = row.cipher BY <2>2, <3>1, <3>2, SealedRow
      <4>2. row.cipher.under \in Requests BY <1>2, <4>1 DEF Row, Cipher
      <4> QED BY <1>0, <1>2, <2>2, <4>1, <4>2, AccountGrows
    <3>3. CASE key[r] # None
      <4>1. rows'[c].cipher.under = key[r] BY <2>2, <3>1, <3>3, SealedRow
      <4>2. key[r] \in Accounted BY <1>0, <2>2, <3>3 DEF KeysAreAccounted
      <4> QED BY <1>0, <3>1, <3>3, <4>1, <4>2, AccountGrows
    <3> QED BY <3>2, <3>3
  <2>3. CASE Insert(r) /\ pc[r] = "ready" /\ rows'[c] = Sealed(r, New(r))
    <3>1. ask[r] \in Ask /\ ask[r].kind = "create" BY <1>0, <2>3 DEF Insert, Stage
    <3>2. New(r) \in Row /\ New(r).cipher = None BY <3>1, NewRow
    <3> QED BY <2>2, <2>3, <3>2
  <2>4. CASE /\ Update(r) /\ pc[r] = "ready"
             /\ rows'[c] = [Sealed(r, got[r]) EXCEPT !.version = @ + 1]
    <3>1. got[r] \in Row /\ key[r] \in Requests \cup {None}
          /\ (got[r].cipher # None => got[r].cipher.under \in Accounted)
      BY <1>0, <2>4 DEF Update, Stage, Past, Kind, Typed, KeyInv, ReadIsSealedRight
    <3>2. Sealed(r, got[r]) \in Row BY <3>1, SealedRow
    <3>3. rows'[c].cipher = Sealed(r, got[r]).cipher BY <2>4, <3>2 DEF Row
    <3> QED BY <2>2, <2>4, <3>1, <3>3
  <2> QED BY <1>2, <2>1, <2>3, <2>4, RowSteps
<1>3. ASSUME NEW q \in Requests, Past(q)', ~Kind(q, "create")', got'[q].cipher # None
      PROVE  got'[q].cipher.under \in Accounted'
  <2>1. CASE Past(q) /\ got'[q] = got[q] /\ ask'[q] = ask[q]
    <3>1. got[q] \in Row /\ got[q].cipher.under \in Accounted
      BY <1>0, <1>3, <2>1 DEF Stage, Kind, KeyInv, ReadIsSealedRight
    <3>2. got[q].cipher.under \in Requests BY <1>3, <2>1, <3>1 DEF Row, Cipher
    <3> QED BY <1>0, <2>1, <3>1, <3>2, AccountGrows
  <2>2. CASE q = r /\ Read(r)
    <3> DEFINE row == rows[ask[r].row]
    <3>1. /\ row \in Row /\ row # None /\ got'[r] = Changed(r, row)
          /\ ask[r] \in Ask /\ ask[r].row \in Requests
      BY <1>0, <1>3, <2>2, ReadSteps DEF Makes, Past, Typed, Read, Go, Stage, Ask, Kind
    <3>2. row.cipher # None => row.cipher.under \in Accounted
      BY <3>1 DEF KeyInv, SealedValuesCanBeOpened, Accounted
    <3> HIDE DEF row
    <3>3. got'[r].cipher = row.cipher
      <4>1. CASE ask[r].kind = "update"
        <5>1. Changed(r, row).cipher = row.cipher BY <3>1, <4>1, ChangedRow
        <5> QED BY <3>1, <5>1
      <4>2. CASE ask[r].kind # "update" BY <3>1, <4>2, UnchangedRow
      <4> QED BY <4>1, <4>2
    <3>4. row.cipher.under \in Requests BY <1>3, <2>2, <3>1, <3>3 DEF Row, Cipher
    <3> QED BY <1>0, <1>3, <2>2, <3>2, <3>3, <3>4, AccountGrows
  <2>3. (Past(q) /\ got'[q] = got[q] /\ ask'[q] = ask[q]) \/ (q = r /\ Read(r))
    <3>1. CASE q # r
      <4>1. Stays(q) BY <3>1, OthersStay DEF Makes
      <4> QED BY <1>3, <4>1 DEF Stays, Past
    <3>2. CASE q = r /\ ~Read(r)
      BY <1>0, <1>3, <3>2
         DEF Step, Begin, Check, KeyFound, KeyMissing, StoreKey, Insert, Update, Delete,
             Answer, Fails, Go, rest, after, Past, Kind, Stage, Typed
    <3> QED BY <3>1, <3>2
  <2> QED BY <2>1, <2>2, <2>3
<1> QED BY <1>1, <1>2, <1>3 DEF KeyInv, ReadIsSealedRight, SealedValuesCanBeOpened, Accounted

LEMMA EndKeepsKeys == Makes /\ KeyInv /\ Ends => KeyInv'
<1> SUFFICES ASSUME Makes, KeyInv, Ends PROVE KeyInv'
  OBVIOUS
<1>1. /\ UNCHANGED <<rows, ask, got, key, rival>> /\ ring' = None
      /\ lost' = lost \cup {r \in Requests : key[r] = r}
      /\ \A r \in Requests : pc'[r] = IF pc[r] \in AtWork THEN "dead" ELSE pc[r]
  BY DEF Makes, Typed, Ends, Restart
<1>2. ASSUME NEW k \in Requests, k \in Accounted PROVE k \in Accounted'
  BY <1>1, <1>2 DEF KeyInv, KeysAreAccounted, Accounted
<1>3. KeysAreAccounted' /\ ReadIsSealedRight'
  BY <1>1 DEF KeysAreAccounted, ReadIsSealedRight, Past, AtWork
<1>4. ASSUME NEW c \in Requests, rows'[c] # None, rows'[c].cipher # None
      PROVE  rows'[c].cipher.under \in Accounted'
  <2>1. rows[c] \in Row /\ rows'[c] = rows[c] /\ rows[c].cipher.under \in Accounted
    BY <1>1, <1>4 DEF Makes, Typed, KeyInv, SealedValuesCanBeOpened, Accounted
  <2>2. rows[c].cipher.under \in Requests BY <1>4, <2>1 DEF Row, Cipher
  <2> QED BY <1>2, <2>1, <2>2
<1> QED BY <1>3, <1>4 DEF KeyInv, SealedValuesCanBeOpened, Accounted

\* What is stored encrypted can be opened, unless its key ended with an earlier
\* process or was generated beside another.
THEOREM KeysAreThere == Spec => []SealedValuesCanBeOpened
<1>1. Init => KeyInv
  BY DEF Init, KeyInv, KeysAreAccounted, ReadIsSealedRight, SealedValuesCanBeOpened, Past
<1>2. Makes /\ KeyInv /\ [Next]_vars => KeyInv'
  <2> SUFFICES ASSUME Makes, KeyInv, [Next]_vars PROVE KeyInv'
    OBVIOUS
  <2>1. CASE UNCHANGED vars
    BY <2>1 DEF KeyInv, KeysAreAccounted, ReadIsSealedRight, SealedValuesCanBeOpened,
                Accounted, Past, Kind, vars
  <2> QED BY <2>1, StepKeepsKeys, EndKeepsKeys, NextSteps
<1>3. KeyInv => SealedValuesCanBeOpened
  BY DEF KeyInv
<1> QED BY <1>1, <1>2, <1>3, MakesHolds, PTL DEF Spec
=============================================================================
