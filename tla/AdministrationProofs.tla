------------------------- MODULE AdministrationProofs ------------------------
(***************************************************************************)
(* Proofs about the parts that MCAdministration explores side by side, for *)
(* any number of their actors and things:                                  *)
(*   Resources    references are sound, and no editor overwrites what it   *)
(*                was not shown;                                           *)
(*   ClientKeys   the history of a key goes one way;                       *)
(*   RecordPages  listings are complete and free of repetitions;           *)
(*   Process      the file lock makes one command at a time the only       *)
(*                writer of the database, and what this command has        *)
(*                checked of the sentinel and of the schema holds until it *)
(*                lets go of the lock (PInv).                              *)
(***************************************************************************)
EXTENDS Resources, ClientKeys, RecordPages, Process, FiniteSetTheorems, TLAPS

(***************************************************************************)
(* What an editor was shown is what the row still holds, as long as the    *)
(* row has the version that was shown.  A deleted thing never comes back   *)
(* under an editor, for identifiers are new.                               *)
(***************************************************************************)
Faithful(e) ==
  LET x == editor[e].thing
  IN editor[e].state # "idle" =>
       /\ x \in Things
       /\ editor[e].version > 0
       /\ row[x].version >= editor[e].version \/ row[x].version = 0
       /\ editor[e].state # "writing" => editor[e].secret = 0
       /\ row[x].version = editor[e].version =>
            /\ editor[e].state # "listing" => editor[e].refs = row[x].refs
            /\ editor[e].secret > 0 => editor[e].secret = row[x].secret

EditorsFaithful == \A e \in Editors : Faithful(e)

ResourcesInv == ResourcesTypeOK /\ EditorsFaithful /\ ReferencesAreSound

(***************************************************************************)
(* The handlers are insertions, rewritings and removals of a row, readings *)
(* by an editor, and what leaves the rows alone; they differ in what the   *)
(* row they write may refer to.                                            *)
(***************************************************************************)
SoundRefs(x, refs, google) ==
  /\ refs \subseteq Present(Things)
  /\ x \in Proxies => refs = {}
  /\ x \in Upstreams => refs \subseteq Proxies
  /\ x \in Holders => /\ \E u \in Upstreams : refs \cap Upstreams = {u}
                      /\ refs \subseteq Upstreams \cup Proxies
                      /\ google => \A u \in refs \cap Upstreams : row[u].google
  /\ x \in Routes => refs # {} /\ refs \subseteq Holders

Inserts(x) ==
  \E refs \in SUBSET Things, google \in BOOLEAN :
    Insert(x, refs, google) /\ SoundRefs(x, refs, google)

Rewrites(e, x) ==
  \E refs \in SUBSET Things, secret \in Nat :
    /\ editor[e].state \in {"shown", "writing"} /\ editor[e].thing = x
    /\ editor[e].secret > 0 => secret = editor[e].secret
    /\ Rewrite(e, x, refs, secret) /\ SoundRefs(x, refs, row[x].google)

Removes(e, x) == HasETag(e, x) /\ RemoveRow(e, x)

Looks(e, x) == Shown(e, x) \/ ReadSecrets(e, x) \/ ShowRoute(e, x) \/ ShowCandidates(e, x)

Leaves(e) == editor[e].state = "shown" /\ Leave(e) /\ UNCHANGED row

Edit(e, x) == Rewrites(e, x) \/ Removes(e, x) \/ Looks(e, x) \/ Leaves(e)

LEMMA KindsOfThings ==
  /\ Proxies \subseteq Things /\ Upstreams \subseteq Things
  /\ Holders \subseteq Things /\ Routes \subseteq Things
  BY DEF Things

LEMMA ProxyKinds ==
  ASSUME ResourcesInv, NEW x \in Proxies
  PROVE  /\ CreateProxy(x) => Inserts(x)
         /\ \A e \in Editors : ShowProxy(e, x) \/ ReadSecrets(e, x) \/ UpdateProxy(e, x)
                                 \/ DeleteProxy(e, x) => Edit(e, x)
<1>1. \A google : SoundRefs(x, {}, google)
  BY ResourcesAssumption DEF SoundRefs
<1>2. CreateProxy(x) => Inserts(x)
  BY <1>1 DEF CreateProxy, Inserts
<1>3. ASSUME NEW e \in Editors, UpdateProxy(e, x) PROVE Rewrites(e, x)
  <2> DEFINE secret == IF editor[e].secret = 0 THEN row[x].version + 1 ELSE editor[e].secret
  <2>1. secret \in Nat /\ (editor[e].secret > 0 => secret = editor[e].secret)
    BY KindsOfThings DEF ResourcesInv, ResourcesTypeOK, Editor, Row
  <2>2. Rewrite(e, x, {}, secret) /\ editor[e].state = "writing" /\ editor[e].thing = x
    BY <1>3 DEF UpdateProxy
  <2> HIDE DEF secret
  <2>3. QED
    BY <1>1, <2>1, <2>2 DEF Rewrites
<1>4. QED
  BY <1>2, <1>3 DEF ShowProxy, DeleteProxy, Edit, Looks, Removes

(***************************************************************************)
(* An editor who is shown a thing holds no secret yet, so what it writes   *)
(* of them is its own.                                                     *)
(***************************************************************************)
LEMMA ShownRewrites ==
  ASSUME ResourcesInv, NEW e \in Editors, NEW x \in Things, NEW refs \in SUBSET Things,
         HasETag(e, x), Rewrite(e, x, refs, 1), SoundRefs(x, refs, row[x].google)
  PROVE  Rewrites(e, x)
<1>1. editor[e].state = "shown" /\ editor[e].thing = x /\ editor[e].secret = 0
  BY DEF HasETag, ResourcesInv, EditorsFaithful, Faithful
<1>2. QED
  BY <1>1 DEF Rewrites

LEMMA UpstreamKinds ==
  ASSUME ResourcesInv, NEW x \in Upstreams
  PROVE  /\ CreateUpstream(x) => Inserts(x)
         /\ \A e \in Editors : ShowUpstream(e, x) \/ UpdateUpstream(e, x) \/ DeleteUpstream(e, x)
                                 => Edit(e, x)
<1>1. \A refs \in AtMostOne(Proxies) : \A google : SoundRefs(x, refs, google) /\ refs \in SUBSET Things
  BY ResourcesAssumption DEF SoundRefs, AtMostOne, Present, Things
<1>2. CreateUpstream(x) => Inserts(x)
  BY <1>1 DEF CreateUpstream, Inserts
<1>3. ASSUME NEW e \in Editors, UpdateUpstream(e, x) PROVE Rewrites(e, x) \/ Leaves(e)
  BY <1>1, <1>3, ShownRewrites, KindsOfThings DEF UpdateUpstream, Leaves, HasETag
<1>4. QED
  BY <1>2, <1>3 DEF ShowUpstream, DeleteUpstream, Edit, Looks, Removes

LEMMA HolderKinds ==
  ASSUME ResourcesInv, NEW x \in Holders
  PROVE  /\ CreateHolder(x) => Inserts(x)
         /\ \A e \in Editors : ShowHolder(e, x) \/ UpdateHolder(e, x) \/ DeleteHolder(e, x)
                                 => Edit(e, x)
<1>1. ASSUME NEW google \in BOOLEAN, NEW refs \in Egress(google)
      PROVE  SoundRefs(x, refs, google) /\ refs \in SUBSET Things
  <2>1. PICK u \in Present(Upstreams), proxy \in AtMostOne(Proxies) :
          refs = {u} \cup proxy /\ (google => row[u].google)
    BY <1>1 DEF Egress, Present
  <2>2. u \in Upstreams /\ proxy \subseteq Proxies /\ refs \cap Upstreams = {u}
    BY <2>1, ResourcesAssumption DEF AtMostOne, Present
  <2>3. refs \subseteq Present(Things)
    BY <2>1, KindsOfThings DEF AtMostOne, Present
  <2>4. QED
    BY <2>1, <2>2, <2>3, ResourcesAssumption DEF SoundRefs, Present
<1>2. CreateHolder(x) => Inserts(x)
  BY <1>1 DEF CreateHolder, Inserts
<1>3. row[x].google \in BOOLEAN
  BY KindsOfThings DEF ResourcesInv, ResourcesTypeOK, Row
<1>4. ASSUME NEW e \in Editors, UpdateHolder(e, x) PROVE Rewrites(e, x)
  BY <1>1, <1>3, <1>4, ShownRewrites, KindsOfThings DEF UpdateHolder
<1>5. QED
  BY <1>2, <1>4 DEF ShowHolder, DeleteHolder, Edit, Looks, Removes

LEMMA RouteKinds ==
  ASSUME ResourcesInv, NEW x \in Routes
  PROVE  /\ CreateModelRoute(x) => Inserts(x)
         /\ \A e \in Editors : ShowRoute(e, x) \/ ShowCandidates(e, x) \/ UpdateModelRoute(e, x)
                                 \/ DeleteModelRoute(e, x) => Edit(e, x)
<1>1. \A refs \in CandidateSets : \A google : SoundRefs(x, refs, google) /\ refs \in SUBSET Things
  BY ResourcesAssumption DEF SoundRefs, CandidateSets, Present, Things
<1>2. CreateModelRoute(x) => Inserts(x)
  BY <1>1 DEF CreateModelRoute, Inserts
<1>3. ASSUME NEW e \in Editors, UpdateModelRoute(e, x) PROVE Rewrites(e, x)
  BY <1>1, <1>3, ShownRewrites, KindsOfThings DEF UpdateModelRoute
<1>4. QED
  BY <1>2, <1>3 DEF DeleteModelRoute, Edit, Looks, Removes

LEMMA Kinds ==
  ASSUME ResourcesInv, ResourcesNext
  PROVE  \/ \E x \in Things : Inserts(x)
         \/ \E e \in Editors, x \in Things : Edit(e, x)
         \/ \E e \in Editors : Leaves(e)
         \/ SaveRecord \/ ExpireRecord
<1>1. CASE ProxyHandlers
  BY <1>1, ProxyKinds, KindsOfThings DEF ProxyHandlers
<1>2. CASE UpstreamHandlers
  BY <1>2, UpstreamKinds, KindsOfThings DEF UpstreamHandlers
<1>3. CASE AccountHandlers
  BY <1>3, HolderKinds, KindsOfThings DEF AccountHandlers
<1>4. CASE RouteHandlers
  BY <1>4, RouteKinds, KindsOfThings DEF RouteHandlers
<1>5. CASE Abandon
  BY <1>5 DEF Abandon, Leaves
<1>6. QED
  BY <1>1, <1>2, <1>3, <1>4, <1>5 DEF ResourcesNext

(***************************************************************************)
(* What each kind of step does to the rows and to the editors.             *)
(***************************************************************************)
LEMMA InsertKeeps ==
  ASSUME ResourcesInv, NEW x \in Things, Inserts(x)
  PROVE  ResourcesInv'
<1>1. PICK refs \in SUBSET Things, google \in BOOLEAN :
        Insert(x, refs, google) /\ SoundRefs(x, refs, google)
  BY DEF Inserts
<1> DEFINE new == [version |-> 1, refs |-> refs, google |-> google, secret |-> 1]
<1>2. /\ row' = [row EXCEPT ![x] = new] /\ row[x] = NoRow
      /\ \A e \in Editors : editor[e].thing # x
      /\ editor' = editor /\ logged' = logged
  BY <1>1 DEF Insert, Unused
<1>3. new \in Row /\ new.version = 1 /\ new.refs = refs /\ new.google = google
  BY DEF Row
<1>4. row[x].version = 0
  BY <1>2 DEF NoRow
<1>5. /\ row'[x] = new /\ \A y \in Things : y # x => row'[y] = row[y]
  BY <1>2 DEF ResourcesInv, ResourcesTypeOK
<1> HIDE DEF new
<1>6. ResourcesTypeOK'
  BY <1>2, <1>3 DEF ResourcesInv, ResourcesTypeOK
<1>7. EditorsFaithful'
  BY <1>2, <1>5 DEF ResourcesInv, EditorsFaithful, Faithful
<1>8. ReferencesAreSound'
  <2>1. \A y \in Things : row'[y].refs \subseteq Present(Things)
    BY <1>1, <1>3, <1>5 DEF ResourcesInv, ReferencesAreSound, SoundRefs
  <2>2. \A u \in Upstreams : u \in Present(Things) => u # x
    BY <1>4 DEF Present
  <2>3. QED
    BY <1>1, <1>2, <1>3, <1>4, <1>5, <2>1, <2>2, KindsOfThings
    DEF ResourcesInv, ReferencesAreSound, SoundRefs, Present
<1>9. QED
  BY <1>6, <1>7, <1>8 DEF ResourcesInv

LEMMA AtRestType == AtRest \in Editor /\ AtRest.state = "idle"
  BY DEF AtRest, Editor

LEMMA LeaveType ==
  ASSUME ResourcesInv, NEW e \in Editors, Leave(e)
  PROVE  /\ editor' \in [Editors -> Editor]
         /\ editor'[e].state = "idle"
         /\ \A f \in Editors : f # e => editor'[f] = editor[f]
         /\ logged' = logged
  BY AtRestType DEF Leave, ResourcesInv, ResourcesTypeOK

LEMMA LeaveKeeps ==
  ASSUME ResourcesInv, NEW e \in Editors, Leave(e), UNCHANGED row
  PROVE  ResourcesInv'
<1>1. ResourcesTypeOK'
  BY LeaveType DEF ResourcesInv, ResourcesTypeOK
<1>2. EditorsFaithful'
  BY LeaveType DEF ResourcesInv, EditorsFaithful, Faithful
<1>3. ReferencesAreSound'
  BY LeaveType DEF ResourcesInv, ReferencesAreSound, Present
<1>4. QED
  BY <1>1, <1>2, <1>3 DEF ResourcesInv

LEMMA RewriteKeeps ==
  ASSUME ResourcesInv, NEW e \in Editors, NEW x \in Things, Rewrites(e, x)
  PROVE  ResourcesInv'
<1>1. PICK refs \in SUBSET Things, secret \in Nat :
        /\ editor[e].state \in {"shown", "writing"} /\ editor[e].thing = x
        /\ editor[e].secret > 0 => secret = editor[e].secret
        /\ Rewrite(e, x, refs, secret) /\ SoundRefs(x, refs, row[x].google)
  BY DEF Rewrites
<1>2. Leave(e)
  BY <1>1 DEF Rewrite
<1>3. CASE ~Matches(e, x)
  BY <1>1, <1>2, <1>3, LeaveKeeps DEF Rewrite
<1>4. CASE Matches(e, x)
  <2>1. /\ row[x] \in Row /\ row[x].version > 0
    BY <1>1, <1>4 DEF Matches, ResourcesInv, ResourcesTypeOK, EditorsFaithful, Faithful
  <2> DEFINE new == [row[x] EXCEPT !.version = row[x].version + 1, !.refs = refs,
                                  !.secret = secret]
  <2>2. /\ new \in Row /\ new.version = row[x].version + 1 /\ new.refs = refs
        /\ new.google = row[x].google
    <3>1. row[x].version + 1 \in Nat
      BY <2>1 DEF Row
    <3>2. \A version \in Nat :
            [row[x] EXCEPT !.version = version, !.refs = refs, !.secret = secret] \in Row
      BY <2>1 DEF Row
    <3>3. new \in Row
      BY <3>1, <3>2
    <3>4. new.version = row[x].version + 1 /\ new.refs = refs
      BY <2>1 DEF Row
    <3>5. new.google = row[x].google
      BY <2>1 DEF Row
    <3>6. QED
      BY <3>3, <3>4, <3>5
  <2>3. row' = [row EXCEPT ![x] = new]
    BY <1>1, <1>4, <2>1 DEF Rewrite, ResourcesInv, ResourcesTypeOK, Row
  <2>4. row'[x] = new /\ \A y \in Things : y # x => row'[y] = row[y]
    BY <2>3 DEF ResourcesInv, ResourcesTypeOK
  <2> HIDE DEF new
  <2>5. ResourcesTypeOK'
    BY <1>2, <2>2, <2>3, LeaveType DEF ResourcesInv, ResourcesTypeOK
  <2>6. EditorsFaithful'
    <3> SUFFICES ASSUME NEW f \in Editors PROVE Faithful(f)'
      BY DEF EditorsFaithful
    <3>1. CASE f = e
      BY <1>2, <3>1, LeaveType DEF Faithful
    <3>2. CASE f # e
      <4>1. Faithful(f) /\ editor'[f] = editor[f]
        BY <1>2, <3>2, LeaveType DEF ResourcesInv, EditorsFaithful
      <4>2. editor[f].version \in Nat /\ row[x].version \in Nat
        BY <2>1 DEF ResourcesInv, ResourcesTypeOK, Editor, Row
      <4>3. QED
        BY <2>1, <2>2, <2>4, <4>1, <4>2 DEF Faithful
    <3>3. QED
      BY <3>1, <3>2
  <2>7. \A y \in Things : row'[y].version > 0 <=> row[y].version > 0
    BY <2>1, <2>2, <2>4 DEF Row
  <2>8. ReferencesAreSound'
    <3>1. \A y \in Things : row'[y].google = row[y].google
      BY <2>2, <2>4
    <3>2. \A y \in Things : y # x => row'[y].refs = row[y].refs
      BY <2>4
    <3>3. row'[x].refs = refs /\ x \in Present(Things)
      BY <2>1, <2>2, <2>4 DEF Present
    <3>4. logged' = logged
      BY <1>2, LeaveType
    <3>5. QED
      BY <1>1, <2>7, <3>1, <3>2, <3>3, <3>4, KindsOfThings
      DEF ResourcesInv, ReferencesAreSound, SoundRefs, Present
  <2>9. QED
    BY <2>5, <2>6, <2>8 DEF ResourcesInv
<1>5. QED
  BY <1>3, <1>4

LEMMA RemoveKeeps ==
  ASSUME ResourcesInv, NEW e \in Editors, NEW x \in Things, Removes(e, x)
  PROVE  ResourcesInv'
<1>1. Leave(e)
  BY DEF Removes, RemoveRow
<1>2. CASE ~Matches(e, x) \/ Referenced(x)
  BY <1>1, <1>2, LeaveKeeps DEF Removes, RemoveRow
<1>3. CASE Matches(e, x) /\ ~Referenced(x)
  <2>1. row' = [row EXCEPT ![x] = NoRow]
    BY <1>3 DEF Removes, RemoveRow
  <2>2. row'[x] = NoRow /\ \A y \in Things : y # x => row'[y] = row[y]
    BY <2>1 DEF ResourcesInv, ResourcesTypeOK
  <2>3. NoRow \in Row /\ NoRow.version = 0 /\ NoRow.refs = {}
    BY DEF NoRow, Row
  <2>4. ResourcesTypeOK'
    BY <1>1, <2>1, <2>3, LeaveType DEF ResourcesInv, ResourcesTypeOK
  <2>5. EditorsFaithful'
    <3> SUFFICES ASSUME NEW f \in Editors PROVE Faithful(f)'
      BY DEF EditorsFaithful
    <3>1. CASE f = e
      BY <1>1, <3>1, LeaveType DEF Faithful
    <3>2. CASE f # e
      <4>1. Faithful(f) /\ editor'[f] = editor[f]
        BY <1>1, <3>2, LeaveType DEF ResourcesInv, EditorsFaithful
      <4>2. QED
        BY <2>2, <2>3, <4>1 DEF Faithful
    <3>3. QED
      BY <3>1, <3>2
  <2>6. ReferencesAreSound'
    <3>1. logged' = logged
      BY <1>1, LeaveType
    <3>2. /\ \A y \in Things : x \notin row[y].refs
          /\ \A entry \in logged : x \notin {entry[1], entry[2]}
      BY <1>3 DEF Referenced
    <3>3. QED
      BY <2>2, <2>3, <3>1, <3>2, KindsOfThings DEF ResourcesInv, ReferencesAreSound, Present
  <2>7. QED
    BY <2>4, <2>5, <2>6 DEF ResourcesInv
<1>4. QED
  BY <1>2, <1>3

(***************************************************************************)
(* An editor that looks keeps its version, or takes the row's, and takes   *)
(* what the row holds at that moment.                                      *)
(***************************************************************************)
LEMMA LookKeeps ==
  ASSUME ResourcesInv, NEW e \in Editors, NEW x \in Things, Looks(e, x)
  PROVE  ResourcesInv'
<1>1. UNCHANGED <<row, logged>>
  BY DEF Looks, Shown, ReadSecrets, ShowRoute, ShowCandidates
<1>2. /\ editor[e] \in Editor /\ row[x] \in Row /\ Faithful(e)
      /\ editor \in [Editors -> Editor]
  BY DEF ResourcesInv, ResourcesTypeOK, EditorsFaithful
<1>3. ReferencesAreSound'
  BY <1>1 DEF ResourcesInv, ReferencesAreSound, Present
<1>4. \A new \in Editor : editor' = [editor EXCEPT ![e] = new] =>
        /\ ResourcesTypeOK'
        /\ editor'[e] = new /\ \A f \in Editors : f # e => Faithful(f)'
  BY <1>1 DEF ResourcesInv, ResourcesTypeOK, EditorsFaithful, Faithful
<1> DEFINE Fits(new) ==
      /\ new.thing = x /\ new.version > 0
      /\ row[x].version >= new.version \/ row[x].version = 0
      /\ new.state # "writing" => new.secret = 0
      /\ row[x].version = new.version =>
           /\ new.state # "listing" => new.refs = row[x].refs
           /\ new.secret > 0 => new.secret = row[x].secret
<1>5. \A new \in Editor : editor' = [editor EXCEPT ![e] = new] /\ Fits(new) => ResourcesInv'
  <2> SUFFICES ASSUME NEW new \in Editor, editor' = [editor EXCEPT ![e] = new], Fits(new)
               PROVE  ResourcesInv'
    OBVIOUS
  <2>1. Faithful(e)'
    BY <1>1, <1>4 DEF Faithful
  <2>2. QED
    BY <1>3, <1>4, <2>1 DEF ResourcesInv, EditorsFaithful
<1>6. CASE Shown(e, x)
  <2> DEFINE new == [state |-> "shown", thing |-> x, version |-> row[x].version,
                     refs |-> row[x].refs, secret |-> 0]
  <2>1. row[x].version \in Nat /\ row[x].version > 0
    BY <1>2, <1>6 DEF Shown, Row
  <2>2. new \in Editor /\ Fits(new)
    BY <1>2, <2>1 DEF Editor, Row
  <2>3. editor' = [editor EXCEPT ![e] = new]
    BY <1>6 DEF Shown
  <2> HIDE DEF new, Fits
  <2>4. QED
    BY <1>5, <2>2, <2>3
<1>7. CASE ReadSecrets(e, x)
  <2>1. PICK secret \in {0, row[x].secret} :
          editor' = [editor EXCEPT ![e].state = "writing", ![e].secret = secret]
    BY <1>7 DEF ReadSecrets
  <2> DEFINE new == [editor[e] EXCEPT !.state = "writing", !.secret = secret]
  <2>2. secret \in Nat /\ editor[e].thing = x /\ editor[e].state = "shown"
    BY <1>2, <1>7 DEF ReadSecrets, HasETag, Row
  <2>3. /\ new \in Editor /\ new.thing = x /\ new.version = editor[e].version
        /\ new.refs = editor[e].refs /\ new.secret = secret /\ new.state = "writing"
    BY <1>2, <2>2 DEF Editor
  <2>4. editor' = [editor EXCEPT ![e] = new]
    BY <1>2, <2>1 DEF Editor
  <2> HIDE DEF new
  <2>5. secret > 0 => secret = row[x].secret
    BY <2>1
  <2>6. Fits(new)
    BY <1>2, <2>2, <2>3, <2>5 DEF Faithful
  <2> HIDE DEF Fits
  <2>7. QED
    BY <1>5, <2>3, <2>4, <2>6
<1>8. CASE ShowRoute(e, x)
  <2> DEFINE new == [AtRest EXCEPT !.state = "listing", !.thing = x, !.version = row[x].version]
  <2>1. row[x].version \in Nat /\ row[x].version > 0
    BY <1>2, <1>8 DEF ShowRoute, Row
  <2>2. /\ new \in Editor /\ new.thing = x /\ new.version = row[x].version /\ new.secret = 0
        /\ new.state = "listing"
    BY <2>1 DEF Editor, AtRest
  <2>3. editor' = [editor EXCEPT ![e] = new]
    BY <1>8 DEF ShowRoute
  <2> HIDE DEF new
  <2>4. Fits(new)
    BY <2>1, <2>2
  <2> HIDE DEF Fits
  <2>5. QED
    BY <1>5, <2>2, <2>3, <2>4
<1>9. CASE ShowCandidates(e, x)
  <2> DEFINE new == [editor[e] EXCEPT !.state = "shown", !.refs = row[x].refs]
  <2>1. editor[e].state = "listing" /\ editor[e].thing = x
    BY <1>9 DEF ShowCandidates
  <2>2. /\ new \in Editor /\ new.thing = x /\ new.version = editor[e].version
        /\ new.refs = row[x].refs /\ new.secret = editor[e].secret /\ new.state = "shown"
    BY <1>2, <2>1 DEF Editor, Row
  <2>3. editor' = [editor EXCEPT ![e] = new]
    BY <1>2, <1>9 DEF ShowCandidates, Editor
  <2> HIDE DEF new
  <2>4. Fits(new)
    BY <1>2, <2>1, <2>2 DEF Faithful
  <2> HIDE DEF Fits
  <2>5. QED
    BY <1>5, <2>2, <2>3, <2>4
<1>10. QED
  BY <1>6, <1>7, <1>8, <1>9 DEF Looks

LEMMA RecordKeeps ==
  ASSUME ResourcesInv, SaveRecord \/ ExpireRecord
  PROVE  ResourcesInv'
<1>1. UNCHANGED <<row, editor>>
  BY DEF SaveRecord, ExpireRecord
<1>2. \A entry \in logged' : entry \in logged \/ entry \in Present(Holders) \X Present(Upstreams)
  BY DEF SaveRecord, ExpireRecord
<1>3. ResourcesTypeOK'
  BY <1>1, <1>2 DEF ResourcesInv, ResourcesTypeOK, Present
<1>4. EditorsFaithful'
  BY <1>1 DEF ResourcesInv, EditorsFaithful, Faithful
<1>5. \A entry \in logged' : {entry[1], entry[2]} \subseteq Present(Things)
  BY <1>2, KindsOfThings DEF ResourcesInv, ReferencesAreSound, Present
<1>6. ReferencesAreSound'
  BY <1>1, <1>5 DEF ResourcesInv, ReferencesAreSound, Present
<1>7. QED
  BY <1>3, <1>4, <1>6 DEF ResourcesInv

LEMMA ResourcesStep == ResourcesInv /\ [ResourcesNext]_resourcesVars => ResourcesInv'
<1> SUFFICES ASSUME ResourcesInv, [ResourcesNext]_resourcesVars PROVE ResourcesInv'
  OBVIOUS
<1>1. CASE ResourcesNext
  <2>1. ASSUME NEW e \in Editors, Leaves(e) PROVE ResourcesInv'
    BY <2>1, LeaveKeeps DEF Leaves
  <2>2. ASSUME NEW e \in Editors, NEW x \in Things, Edit(e, x) PROVE ResourcesInv'
    BY <2>1, <2>2, RewriteKeeps, RemoveKeeps, LookKeeps DEF Edit
  <2>3. QED
    BY <1>1, <2>1, <2>2, Kinds, InsertKeeps, RecordKeeps
<1>2. CASE UNCHANGED resourcesVars
  BY <1>2 DEF resourcesVars, ResourcesInv, ResourcesTypeOK, EditorsFaithful, Faithful,
              ReferencesAreSound, Present
<1>3. QED
  BY <1>1, <1>2

LEMMA ResourcesStart == ResourcesInit => ResourcesInv
<1> SUFFICES ASSUME ResourcesInit PROVE ResourcesInv
  OBVIOUS
<1>1. NoRow \in Row /\ NoRow.version = 0 /\ NoRow.refs = {}
  BY DEF NoRow, Row
<1>2. ResourcesTypeOK
  BY <1>1, AtRestType DEF ResourcesInit, ResourcesTypeOK
<1>3. EditorsFaithful
  BY AtRestType DEF ResourcesInit, EditorsFaithful, Faithful
<1>4. ReferencesAreSound
  BY <1>1, KindsOfThings DEF ResourcesInit, ReferencesAreSound, Present
<1>5. QED
  BY <1>2, <1>3, <1>4 DEF ResourcesInv

LEMMA ResourcesInvariance == ResourcesSpec => []ResourcesInv
  BY ResourcesStart, ResourcesStep, PTL DEF ResourcesSpec

(***************************************************************************)
(* Every stored reference resolves, to a thing of the right kind, however  *)
(* many editors write, delete and record at the same time.                 *)
(***************************************************************************)
THEOREM ReferencesSound == ResourcesSpec => []ReferencesAreSound
  BY ResourcesInvariance, PTL DEF ResourcesInv

(***************************************************************************)
(* An update replaces what its editor was shown: only a rewriting raises a *)
(* version, and it does so when the version is the one shown, for which    *)
(* the editor is faithful.                                                 *)
(***************************************************************************)
THEOREM NothingOverwrittenBlindly == ResourcesSpec => NoBlindOverwrite
<1> DEFINE Sighted ==
      \A e \in Editors, x \in Things :
        (editor[e].thing = x /\ editor'[e] = AtRest /\ row'[x].version = row[x].version + 1)
        => /\ editor[e].refs = row[x].refs
           /\ editor[e].secret > 0 => row'[x].secret = row[x].secret
<1>1. ResourcesInv /\ [ResourcesNext]_resourcesVars => [Sighted]_resourcesVars
  <2> SUFFICES ASSUME ResourcesInv, ResourcesNext, NEW e \in Editors, NEW x \in Things,
                      editor[e].thing = x, editor'[e] = AtRest,
                      row'[x].version = row[x].version + 1
               PROVE  /\ editor[e].refs = row[x].refs
                      /\ editor[e].secret > 0 => row'[x].secret = row[x].secret
    OBVIOUS
  <2>1. /\ row[x] \in Row /\ row[x].version \in Nat /\ row'[x] # row[x] /\ x # NoThing
        /\ editor \in [Editors -> Editor] /\ row \in [Things -> Row]
    BY ResourcesAssumption DEF ResourcesInv, ResourcesTypeOK, Row
  <2>2. editor'[e] # editor[e]
    BY <2>1 DEF AtRest
  <2>3. ASSUME NEW f \in Editors, NEW y \in Things, Rewrites(f, y)
        PROVE  /\ editor[e].refs = row[x].refs
               /\ editor[e].secret > 0 => row'[x].secret = row[x].secret
    <3>1. f = e
      BY <2>2, <2>3, LeaveType DEF Rewrites, Rewrite
    <3>2. PICK refs \in SUBSET Things, secret \in Nat :
            /\ editor[e].state \in {"shown", "writing"} /\ editor[e].thing = y
            /\ editor[e].secret > 0 => secret = editor[e].secret
            /\ Rewrite(e, y, refs, secret)
      BY <2>3, <3>1 DEF Rewrites
    <3>3. y = x
      BY <3>2
    <3>4. Matches(e, x) /\ row' = [row EXCEPT ![x].version = @ + 1, ![x].refs = refs,
                                              ![x].secret = secret]
      BY <2>1, <3>2, <3>3 DEF Rewrite
    <3>5. row'[x].secret = secret
      BY <2>1, <3>4 DEF Row
    <3>6. Faithful(e)
      BY DEF ResourcesInv, EditorsFaithful
    <3>7. QED
      BY <3>2, <3>3, <3>4, <3>5, <3>6 DEF Faithful, Matches
  <2>4. ASSUME NEW f \in Editors, NEW y \in Things, Removes(f, y)
        PROVE  FALSE
    <3>1. row'[x] = NoRow
      BY <2>1, <2>4 DEF Removes, RemoveRow
    <3>2. QED
      BY <2>1, <3>1 DEF NoRow
  <2>5. ASSUME NEW y \in Things, Inserts(y) PROVE FALSE
    BY <2>2, <2>5 DEF Inserts, Insert
  <2>6. UNCHANGED row => FALSE
    BY <2>1
  <2>7. QED
    BY <2>3, <2>4, <2>5, <2>6, Kinds
    DEF Edit, Looks, Leaves, Shown, ReadSecrets, ShowRoute, ShowCandidates, SaveRecord,
        ExpireRecord
<1>2. QED
  BY <1>1, ResourcesInvariance, PTL DEF ResourcesSpec, NoBlindOverwrite

-----------------------------------------------------------------------------
(***************************************************************************)
(* Client keys.  A row that is not there yet has no use, and no client     *)
(* that got past the lookup holds the row of such a key: a write of last   *)
(* use never hits a row before its creation.                               *)
(***************************************************************************)
ClientsHoldRows == \A c \in Clients : client[c].state # "idle" => key[client[c].key].status # "none"

RowsStartUnused == \A k \in Keys : key[k].status = "none" => key[k].used = Never

KeysInv ==
  /\ ClientKeysTypeOK
  /\ \A c \in Clients : client[c].state # "idle" => client[c].key \in Keys
  /\ ClientsHoldRows
  /\ RowsStartUnused

\* An action of the administrator on one key leaves the clients alone.
LEMMA HandlersKeepKeys ==
  KeysInv /\ KeyHandlers =>
    /\ KeysInv'
    /\ \A k \in Keys : /\ key[k].status = "revoked" => key'[k].status = "revoked"
                       /\ key'[k].used = key[k].used
<1>. SUFFICES ASSUME KeysInv, NEW k \in Keys,
                     CreateClientKey(k) \/ UpdateClientKey(k) \/ RevokeClientKey(k)
              PROVE  /\ KeysInv'
                     /\ \A j \in Keys : /\ key[j].status = "revoked" => key'[j].status = "revoked"
                                        /\ key'[j].used = key[j].used
  BY DEF KeyHandlers
<1>. USE ClientKeysAssumption
<1>1. client' = client /\ clock' = clock
  BY DEF CreateClientKey, UpdateClientKey, RevokeClientKey
<1>2. PICK r \in Key : /\ key' = [key EXCEPT ![k] = r]
                       /\ r.status # "none"
                       /\ r.used = key[k].used
                       /\ key[k].status # "revoked"
  <2>1. CASE CreateClientKey(k)
    <3>1. PICK expires \in Expiries :
            key' = [key EXCEPT ![k] =
              [status |-> "active", version |-> 1, expires |-> expires, used |-> Never]]
      BY <2>1 DEF CreateClientKey
    <3>2. [status |-> "active", version |-> 1, expires |-> expires, used |-> Never] \in Key
      BY <3>1 DEF Key, Expiries, Never
    <3>3. key[k].status = "none" /\ key[k].used = Never
      BY <2>1 DEF CreateClientKey, KeysInv, RowsStartUnused
    <3>. QED
      BY <3>1, <3>2, <3>3
  <2>2. CASE UpdateClientKey(k)
    <3>1. PICK status \in {"active", "disabled"}, expires \in Expiries :
            key' = [key EXCEPT ![k].status = status, ![k].expires = expires,
                               ![k].version = @ + 1]
      BY <2>2 DEF UpdateClientKey
    <3>2. key[k] \in Key /\ key[k].status # "revoked"
      BY <2>2 DEF UpdateClientKey, KeysInv, ClientKeysTypeOK
    <3>. DEFINE old == key[k]
                version == old.version + 1
                r == [old EXCEPT !.status = status, !.expires = expires, !.version = version]
    <3>3. key' = [key EXCEPT ![k] = r]
      BY <3>1, <3>2 DEF KeysInv, ClientKeysTypeOK
    <3>4. old \in Key /\ expires \in Nat /\ version \in Nat
      BY <3>1, <3>2 DEF Expiries, Never, Key
    <3>5. old.used = key[k].used
      OBVIOUS
    <3>. HIDE DEF old, version
    <3>6. r \in Key /\ r.status # "none" /\ r.used = old.used
      BY <3>1, <3>4 DEF Key
    <3>. QED
      BY <3>2, <3>3, <3>5, <3>6
  <2>3. CASE RevokeClientKey(k)
    <3>1. key[k] \in Key /\ key[k].status # "revoked"
      BY <2>3 DEF RevokeClientKey, KeysInv, ClientKeysTypeOK
    <3>. DEFINE old == key[k]
                version == old.version + 1
                r == [old EXCEPT !.status = "revoked", !.version = version]
    <3>2. key' = [key EXCEPT ![k] = r]
      BY <2>3, <3>1 DEF RevokeClientKey, KeysInv, ClientKeysTypeOK
    <3>3. old \in Key /\ version \in Nat /\ old.used = key[k].used
      BY <3>1 DEF Key
    <3>. HIDE DEF old, version
    <3>4. r \in Key /\ r.status # "none" /\ r.used = old.used
      BY <3>3 DEF Key
    <3>. QED
      BY <3>1, <3>2, <3>3, <3>4
  <2>. QED
    BY <2>1, <2>2, <2>3
<1>3. \A j \in Keys : key'[j] = IF j = k THEN r ELSE key[j]
  BY <1>2 DEF KeysInv, ClientKeysTypeOK
<1>4. ClientKeysTypeOK'
  BY <1>1, <1>2 DEF KeysInv, ClientKeysTypeOK
<1>5. ClientsHoldRows' /\ RowsStartUnused'
  BY <1>1, <1>2, <1>3 DEF KeysInv, ClientsHoldRows, RowsStartUnused
<1>. QED
  BY <1>1, <1>2, <1>3, <1>4, <1>5 DEF KeysInv

LEMMA AuthenticationsKeepKeys ==
  KeysInv /\ Authenticate =>
    /\ KeysInv'
    /\ \A k \in Keys : /\ key[k].status = "revoked" => key'[k].status = "revoked"
                       /\ \/ key'[k].used = key[k].used
                          \/ key[k].used = Never
                          \/ key'[k].used > key[k].used + Throttle
<1>. SUFFICES ASSUME KeysInv, NEW c \in Clients,
                     (\E k \in Keys : ReadKey(c, k)) \/ ReadClock(c) \/ WriteLastUse(c)
              PROVE  /\ KeysInv'
                     /\ \A k \in Keys :
                          /\ key[k].status = "revoked" => key'[k].status = "revoked"
                          /\ \/ key'[k].used = key[k].used
                             \/ key[k].used = Never
                             \/ key'[k].used > key[k].used + Throttle
  BY DEF Authenticate
<1>. USE ClientKeysAssumption
<1>1. /\ key \in [Keys -> Key] /\ client \in [Clients -> Client]
      /\ clock \in Nat /\ client[c] \in Client /\ Away \in Client
  BY DEF KeysInv, ClientKeysTypeOK, Away, Client, Never
<1>2. CASE \E k \in Keys : ReadKey(c, k)
  <2>1. PICK k \in Keys : ReadKey(c, k)
    BY <1>2
  <2>2. [state |-> "read", key |-> k, expires |-> key[k].expires, now |-> 0] \in Client
    BY <1>1 DEF Client, Key
  <2>3. ClientKeysTypeOK'
    BY <1>1, <2>1, <2>2 DEF ReadKey, ClientKeysTypeOK
  <2>4. \A d \in Clients : client'[d] = IF d = c
          THEN [state |-> "read", key |-> k, expires |-> key[k].expires, now |-> 0]
          ELSE client[d]
    BY <1>1, <2>1 DEF ReadKey
  <2>5. key' = key /\ key[k].status = "active"
    BY <2>1 DEF ReadKey
  <2>. QED
    BY <2>3, <2>4, <2>5 DEF KeysInv, ClientsHoldRows, RowsStartUnused
<1>3. CASE ReadClock(c)
  <2>1. PICK r \in Client : /\ client' = [client EXCEPT ![c] = r]
                            /\ r.state # "idle" => r.key = client[c].key
    <3>1. [client[c] EXCEPT !.state = "timed", !.now = clock] \in Client
      BY <1>1 DEF Client
    <3>. DEFINE timed == [client[c] EXCEPT !.state = "timed", !.now = clock]
    <3>2. CASE client[c].expires # Never /\ client[c].expires <= clock
      BY <1>1, <1>3, <3>2 DEF ReadClock, Away
    <3>3. CASE ~(client[c].expires # Never /\ client[c].expires <= clock)
      <4>1. client' = [client EXCEPT ![c] = timed]
        BY <1>1, <1>3, <3>3 DEF ReadClock
      <4>2. timed.key = client[c].key
        BY <1>1 DEF Client
      <4>. QED
        BY <3>1, <4>1, <4>2
    <3>. QED
      BY <3>2, <3>3
  <2>2. key' = key /\ clock' = clock /\ client[c].state # "idle"
    BY <1>3 DEF ReadClock
  <2>3. \A d \in Clients : client'[d] = IF d = c THEN r ELSE client[d]
    BY <1>1, <2>1
  <2>4. ClientKeysTypeOK'
    BY <1>1, <2>1, <2>2 DEF ClientKeysTypeOK
  <2>. QED
    BY <2>1, <2>2, <2>3, <2>4 DEF KeysInv, ClientsHoldRows, RowsStartUnused
<1>4. CASE WriteLastUse(c)
  <2>. DEFINE k == client[c].key
              used == IF IsStale(key[k].used, client[c].now) THEN client[c].now ELSE key[k].used
  <2>1. k \in Keys /\ key[k].status # "none"
    BY <1>4 DEF WriteLastUse, KeysInv, ClientsHoldRows
  <2>2. used \in Nat
    BY <1>1, <2>1 DEF Client, Key
  <2>3. /\ client' = [client EXCEPT ![c] = Away] /\ clock' = clock
        /\ key' = [key EXCEPT ![k].used = used]
    BY <1>4 DEF WriteLastUse
  <2>4. \/ used = key[k].used \/ key[k].used = Never \/ used > key[k].used + Throttle
    BY <1>1, <2>1 DEF IsStale, Client, Key
  <2>. HIDE DEF k, used
  <2>5. key' \in [Keys -> Key]
    BY <1>1, <2>1, <2>2, <2>3 DEF Key
  <2>6. \A j \in Keys : /\ key'[j].status = key[j].status
                        /\ key'[j].used = IF j = k THEN used ELSE key[j].used
    BY <1>1, <2>1, <2>3 DEF Key
  <2>7. ClientKeysTypeOK'
    BY <1>1, <2>3, <2>5 DEF ClientKeysTypeOK
  <2>8. \A d \in Clients : client'[d] = IF d = c THEN Away ELSE client[d]
    BY <1>1, <2>3
  <2>9. ClientsHoldRows' /\ \A d \in Clients : client'[d].state # "idle" => client'[d].key \in Keys
    BY <2>6, <2>8 DEF KeysInv, ClientsHoldRows, Away
  <2>10. RowsStartUnused'
    BY <2>1, <2>6 DEF KeysInv, RowsStartUnused
  <2>. QED
    BY <2>4, <2>6, <2>7, <2>9, <2>10 DEF KeysInv
<1>. QED
  BY <1>2, <1>3, <1>4

LEMMA KeysStep ==
  KeysInv /\ [ClientKeysNext]_clientKeysVars =>
    /\ KeysInv'
    /\ \A k \in Keys :
         /\ key[k].status = "revoked" => key'[k].status = "revoked"
         /\ key'[k].used # key[k].used =>
              key[k].used = Never \/ key'[k].used > key[k].used + Throttle
<1>1. KeysInv /\ SetClock => KeysInv' /\ key' = key
  BY ClientKeysAssumption
  DEF SetClock, KeysInv, ClientKeysTypeOK, ClientsHoldRows, RowsStartUnused
<1>2. KeysInv /\ UNCHANGED clientKeysVars => KeysInv' /\ key' = key
  BY DEF clientKeysVars, KeysInv, ClientKeysTypeOK, ClientsHoldRows, RowsStartUnused
<1>. QED
  BY <1>1, <1>2, HandlersKeepKeys, AuthenticationsKeepKeys DEF ClientKeysNext

(***************************************************************************)
(* Whatever administrators and clients do at the same time, a revoked key  *)
(* stays revoked and the time of last use only moves forward, in steps of  *)
(* more than a minute (clientauth/service.go Authenticate; control         *)
(* clientkey.go).                                                          *)
(***************************************************************************)
THEOREM KeysMoveOneWay == ClientKeysSpec => KeyHistoryIsOneWay
<1>1. ClientKeysInit => KeysInv
  BY ClientKeysAssumption
  DEF ClientKeysInit, KeysInv, ClientKeysTypeOK, ClientsHoldRows, RowsStartUnused,
      Key, Client, Away, Never
<1>2. KeysInv /\ [ClientKeysNext]_clientKeysVars => KeysInv'
  BY KeysStep
<1>3. KeysInv /\ [ClientKeysNext]_clientKeysVars =>
        [\A k \in Keys :
           /\ key[k].status = "revoked" => key'[k].status = "revoked"
           /\ key'[k].used # key[k].used =>
                key[k].used = Never \/ key'[k].used > key[k].used + Throttle]_clientKeysVars
  BY KeysStep
<1>. QED
  BY <1>1, <1>2, <1>3, PTL DEF ClientKeysSpec, KeyHistoryIsOneWay

-----------------------------------------------------------------------------
(***************************************************************************)
(* Lists.  The places of rows are in a strict total order, so a finite set *)
(* of rows has one descending enumeration: the rank of a row, the number   *)
(* of rows not after it, counts them off.                                  *)
(***************************************************************************)
LEMMA PlacesOrdered ==
  /\ \A p \in Nat \X Nat : ~Before(p, p)
  /\ \A p, q \in Nat \X Nat : p = q \/ Before(p, q) \/ Before(q, p)
  /\ \A p, q, r \in Nat \X Nat : Before(p, q) /\ Before(q, r) => Before(p, r)
  BY DEF Before

LEMMA PlacesFinite ==
  /\ Places \subseteq Nat \X Nat
  /\ \A rows \in SUBSET Places : IsFiniteSet(rows) /\ Cardinality(rows) \in Nat
<1>1. IsFiniteSet(1..LastTime) /\ IsFiniteSet(1..MaxRows)
  BY FS_Interval, RecordPagesAssumption
<1>2. IsFiniteSet(Places)
  BY <1>1, FS_Product DEF Places
<1>. QED
  BY <1>2, FS_Subset, FS_CardinalityType, RecordPagesAssumption DEF Places

Descends(s) == \A i, j \in DOMAIN s : i < j => Before(s[j], s[i])

LEMMA OrderedDescends ==
  \A rows : Ordered(rows) =
              CHOOSE s \in [1..Cardinality(rows) -> rows] : Descends(s)
  BY DEF Ordered, Descends, Before

LEMMA DescentExists ==
  ASSUME NEW rows \in SUBSET Places
  PROVE  \E s \in [1..Cardinality(rows) -> rows] : Descends(s)
<1>. DEFINE n == Cardinality(rows)
            upTo(p) == {q \in rows : q = p \/ Before(p, q)}
            rank == [p \in rows |-> Cardinality(upTo(p))]
<1>1. IsFiniteSet(rows) /\ n \in Nat /\ \A p \in rows : p \in Nat \X Nat
  BY PlacesFinite
<1>2. \A p \in rows : rank[p] \in 1..n
  <2>. SUFFICES ASSUME NEW p \in rows PROVE rank[p] \in 1..n
    OBVIOUS
  <2>1. upTo(p) \in SUBSET rows /\ p \in upTo(p)
    OBVIOUS
  <2>2. IsFiniteSet(upTo(p)) /\ Cardinality(upTo(p)) <= n /\ Cardinality(upTo(p)) \in Nat
    BY <1>1, <2>1, FS_Subset, FS_CardinalityType
  <2>3. Cardinality(upTo(p)) # 0
    BY <2>1, <2>2, FS_EmptySet
  <2>4. rank[p] = Cardinality(upTo(p))
    OBVIOUS
  <2>. HIDE DEF rank, upTo
  <2>. QED
    BY <1>1, <2>2, <2>3, <2>4
<1>3. \A p, q \in rows : Before(p, q) => rank[q] < rank[p]
  <2>. SUFFICES ASSUME NEW p \in rows, NEW q \in rows, Before(p, q)
                PROVE  rank[q] < rank[p]
    OBVIOUS
  <2>1. upTo(q) \in SUBSET upTo(p)
    BY <1>1, PlacesOrdered
  <2>2. p \in upTo(p) /\ p \notin upTo(q)
    BY <1>1, PlacesOrdered
  <2>3. IsFiniteSet(upTo(p))
    BY <1>1, FS_Subset
  <2>4. /\ Cardinality(upTo(q)) <= Cardinality(upTo(p))
        /\ Cardinality(upTo(q)) # Cardinality(upTo(p))
    BY <2>1, <2>2, <2>3, FS_Subset
  <2>5. rank[p] = Cardinality(upTo(p)) /\ rank[q] = Cardinality(upTo(q))
    OBVIOUS
  <2>. HIDE DEF rank, upTo
  <2>. QED
    BY <1>1, <1>2, <2>4, <2>5
<1>. HIDE DEF rank
<1>4. rank \in Injection(rows, 1..n)
  <2>1. rank \in [rows -> 1..n]
    BY <1>2 DEF rank
  <2>2. \A p, q \in rows : rank[p] = rank[q] => p = q
    BY <1>1, <1>2, <1>3, PlacesOrdered
  <2>. QED
    BY <2>1, <2>2 DEF Injection, IsInjective
<1>5. rank \in Surjection(rows, 1..n)
  BY <1>1, <1>4, FS_Injection, FS_Interval
<1>. DEFINE s == [i \in 1..n |-> CHOOSE p \in rows : rank[p] = i]
<1>6. \A i \in 1..n : s[i] \in rows /\ rank[s[i]] = i
  BY <1>5 DEF Surjection
<1>7. s \in [1..n -> rows] /\ DOMAIN s = 1..n
  BY <1>6
<1>. HIDE DEF s
<1>8. ASSUME NEW i \in 1..n, NEW j \in 1..n, i < j PROVE Before(s[j], s[i])
  <2>1. s[i] # s[j] /\ ~Before(s[i], s[j])
    BY <1>3, <1>6, <1>8
  <2>. QED
    BY <1>1, <1>6, <2>1, PlacesOrdered
<1>. QED
  BY <1>7, <1>8 DEF Descends

\* ORDER BY lists every row once, descending.
LEMMA OrderedLists ==
  ASSUME NEW rows \in SUBSET Places
  PROVE  /\ Ordered(rows) \in Seq(rows)
         /\ Descends(Ordered(rows))
         /\ \A p \in rows : \E i \in 1..Len(Ordered(rows)) : Ordered(rows)[i] = p
<1>. DEFINE s == Ordered(rows)
            n == Cardinality(rows)
<1>1. s \in [1..n -> rows] /\ Descends(s)
  BY DescentExists, OrderedDescends
<1>2. n \in Nat /\ IsFiniteSet(rows) /\ \A p \in rows : p \in Nat \X Nat
  BY PlacesFinite
<1>. HIDE DEF s
<1>3. s \in Seq(rows) /\ Len(s) = n /\ DOMAIN s = 1..n
  BY <1>1, <1>2
<1>4. \A i, j \in 1..n : s[i] = s[j] => i = j
  BY <1>1, <1>2, <1>3, PlacesOrdered DEF Descends
<1>5. s \in Injection(1..n, rows)
  BY <1>1, <1>3, <1>4 DEF Injection, IsInjective
<1>6. s \in Surjection(1..n, rows)
  BY <1>2, <1>5, FS_Injection, FS_Interval
<1>. QED
  BY <1>1, <1>3, <1>6 DEF s, Surjection
(***************************************************************************)
(* A page never goes back: what was listed descends to the cursor, and the *)
(* rows that stayed are listed or still ahead of it.                       *)
(***************************************************************************)
PagesInv ==
  /\ RecordPagesTypeOK
  /\ Descends(listed)
  /\ cursor # End => \A i \in DOMAIN listed : cursor = listed[i] \/ Before(cursor, listed[i])
  /\ \A p \in kept : \/ \E i \in DOMAIN listed : listed[i] = p
                     \/ cursor # End /\ Before(p, cursor)

LEMMA Concatenated ==
  ASSUME NEW S, NEW s \in Seq(S), NEW t \in Seq(S)
  PROVE  /\ s \o t \in Seq(S)
         /\ DOMAIN (s \o t) = 1..(Len(s) + Len(t))
         /\ \A i \in 1..Len(s) : (s \o t)[i] = s[i]
         /\ \A i \in 1..Len(t) : (s \o t)[Len(s) + i] = t[i]
  OBVIOUS

LEMMA PageKeeps ==
  ASSUME PagesInv, NEW limit \in Nat \ {0}, ListPage(limit)
  PROVE  PagesInv'
<1>. DEFINE ahead == {p \in table : Before(p, cursor)}
            rows == Ordered(ahead)
            m == IF Len(rows) > limit THEN limit ELSE Len(rows)
            page == SubSeq(rows, 1, m)
            n == Len(listed)
<1>1. /\ table \subseteq Places /\ kept \subseteq table /\ listed \in Seq(Places)
      /\ cursor \in Places \cup {Start} /\ End \notin Places \cup {Start}
      /\ Places \subseteq Nat \X Nat /\ cursor \in Nat \X Nat
  BY RecordPagesAssumption DEF PagesInv, RecordPagesTypeOK, ListPage, Places, Start, End
<1>2. /\ listed' = listed \o page /\ table' = table /\ kept' = kept
      /\ cursor' = IF Len(rows) > limit THEN page[limit] ELSE End
      /\ cursor # End
  BY DEF ListPage
<1>3. /\ rows \in Seq(ahead) /\ Descends(rows)
      /\ \A p \in ahead : \E i \in 1..Len(rows) : rows[i] = p
  BY <1>1, OrderedLists
<1>. HIDE DEF rows
<1>4. /\ m \in Nat /\ m <= Len(rows) /\ Len(rows) \in Nat /\ DOMAIN rows = 1..Len(rows)
      /\ n \in Nat /\ DOMAIN listed = 1..n
  BY <1>1, <1>3
<1>5. /\ page \in Seq(ahead) /\ Len(page) = m /\ \A i \in 1..m : page[i] = rows[i]
  BY <1>3, <1>4
<1>. HIDE DEF page, m
<1>6. /\ listed' \in Seq(Places)
      /\ DOMAIN listed' = 1..(n + m)
      /\ \A i \in 1..n : listed'[i] = listed[i]
      /\ \A i \in 1..m : listed'[n + i] = rows[i]
  <2>1. ahead \subseteq Places
    BY <1>1
  <2>2. page \in Seq(Places)
    BY <1>5, <2>1
  <2>3. listed \in Seq(Places) /\ listed' = listed \o page
    BY <1>1, <1>2
  <2>4. /\ listed \o page \in Seq(Places)
        /\ DOMAIN (listed \o page) = 1..(n + m)
        /\ \A i \in 1..n : (listed \o page)[i] = listed[i]
        /\ \A i \in 1..m : (listed \o page)[n + i] = page[i]
    BY <1>5, <2>2, <2>3, Concatenated
  <2>. QED
    BY <1>5, <2>3, <2>4
<1>7. \A i \in 1..Len(rows) : rows[i] \in Places /\ Before(rows[i], cursor)
  <2>1. \A i \in 1..Len(rows) : rows[i] \in ahead
    BY <1>3
  <2>. QED
    BY <1>1, <2>1
<1>8. /\ \A i \in 1..n : listed[i] \in Nat \X Nat
      /\ \A i \in 1..n : cursor = listed[i] \/ Before(cursor, listed[i])
      /\ \A i, j \in 1..n : i < j => Before(listed[j], listed[i])
      /\ \A i, j \in 1..Len(rows) : i < j => Before(rows[j], rows[i])
      /\ \A p \in kept : (\E i \in 1..n : listed[i] = p) \/ Before(p, cursor)
  <2>1. \A i \in 1..n : listed[i] \in Places
    BY <1>1, <1>4
  <2>. QED
    BY <1>1, <1>2, <1>3, <1>4, <2>1 DEF PagesInv, Descends
<1>9. \A p \in kept : Before(p, cursor) => \E i \in 1..Len(rows) : rows[i] = p
  BY <1>1, <1>3
<1>. HIDE DEF n, ahead
<1>10. \A i, j \in 1..(n + m) : i < j => Before(listed'[j], listed'[i])
  <2>. SUFFICES ASSUME NEW i \in 1..(n + m), NEW j \in 1..(n + m), i < j
                PROVE  Before(listed'[j], listed'[i])
    OBVIOUS
  <2>1. CASE j <= n
    <3>1. i \in 1..n /\ j \in 1..n
      BY <1>4, <2>1
    <3>. QED
      BY <1>6, <1>8, <3>1
  <2>2. CASE i > n
    <3>1. /\ i - n \in 1..m /\ j - n \in 1..m /\ i - n < j - n
          /\ i = n + (i - n) /\ j = n + (j - n)
          /\ i - n \in 1..Len(rows) /\ j - n \in 1..Len(rows)
      BY <1>4, <2>2
    <3>2. listed'[i] = rows[i - n] /\ listed'[j] = rows[j - n]
      BY <1>6, <3>1
    <3>. QED
      BY <1>8, <3>1, <3>2
  <2>3. CASE i <= n /\ j > n
    <3>1. i \in 1..n /\ j - n \in 1..m /\ j - n \in 1..Len(rows) /\ j = n + (j - n)
      BY <1>4, <2>3
    <3>2. listed'[i] = listed[i] /\ listed'[j] = rows[j - n]
      BY <1>6, <3>1
    <3>3. listed'[j] \in Nat \X Nat /\ Before(listed'[j], cursor)
      BY <1>1, <1>7, <3>1, <3>2
    <3>4. listed'[i] \in Nat \X Nat /\ cursor \in Nat \X Nat
      BY <1>1, <1>8, <3>1, <3>2
    <3>. QED
      BY <1>8, <3>1, <3>2, <3>3, <3>4, PlacesOrdered
  <2>. QED
    BY <1>4, <2>1, <2>2, <2>3
<1>11. \A i \in 1..m : n + i \in DOMAIN listed'
  BY <1>4, <1>6
<1>12. \A i \in 1..n : i \in DOMAIN listed'
  BY <1>4, <1>6
<1>13. Descends(listed')
  BY <1>6, <1>10 DEF Descends
<1>14. CASE Len(rows) > limit
  <2>1. m = limit /\ cursor' = rows[limit] /\ limit \in 1..Len(rows)
    BY <1>2, <1>4, <1>5, <1>14 DEF m
  <2>2. cursor' \in Places /\ cursor' # End
    BY <1>1, <1>7, <2>1
  <2>3. RecordPagesTypeOK'
    BY <1>1, <1>2, <1>6, <2>2 DEF RecordPagesTypeOK
  <2>4. cursor' = listed'[n + m] /\ n + m \in 1..(n + m)
    BY <1>4, <1>6, <2>1
  <2>5. \A i \in DOMAIN listed' : cursor' = listed'[i] \/ Before(cursor', listed'[i])
    BY <1>4, <1>6, <1>10, <2>4
  <2>6. ASSUME NEW p \in kept
        PROVE  (\E i \in DOMAIN listed' : listed'[i] = p) \/ Before(p, cursor')
    <3>1. CASE \E i \in 1..n : listed[i] = p
      BY <1>6, <1>12, <3>1
    <3>2. CASE Before(p, cursor)
      <4>1. PICK i \in 1..Len(rows) : rows[i] = p
        BY <1>9, <3>2
      <4>2. CASE i <= m
        BY <1>4, <1>6, <1>11, <4>1, <4>2
      <4>3. CASE i > m
        BY <1>8, <2>1, <4>1, <4>3
      <4>. QED
        BY <1>4, <4>2, <4>3
    <3>. QED
      BY <1>8, <3>1, <3>2
  <2>. QED
    BY <1>2, <1>13, <2>2, <2>3, <2>5, <2>6 DEF PagesInv
<1>15. CASE ~(Len(rows) > limit)
  <2>1. m = Len(rows) /\ cursor' = End
    BY <1>2, <1>15 DEF m
  <2>2. RecordPagesTypeOK'
    BY <1>1, <1>2, <1>6, <2>1 DEF RecordPagesTypeOK
  <2>3. ASSUME NEW p \in kept
        PROVE  \E i \in DOMAIN listed' : listed'[i] = p
    <3>1. CASE \E i \in 1..n : listed[i] = p
      BY <1>6, <1>12, <3>1
    <3>2. CASE Before(p, cursor)
      BY <1>6, <1>9, <1>11, <2>1, <3>2
    <3>. QED
      BY <1>8, <3>1, <3>2
  <2>. QED
    BY <1>2, <1>13, <2>1, <2>2, <2>3 DEF PagesInv
<1>. QED
  BY <1>14, <1>15

LEMMA PagesStep == PagesInv /\ [RecordPagesNext]_recordPagesVars => PagesInv'
<1>. SUFFICES ASSUME PagesInv, [RecordPagesNext]_recordPagesVars PROVE PagesInv'
  OBVIOUS
<1>. USE RecordPagesAssumption
<1>1. /\ table \subseteq Places /\ kept \subseteq table /\ listed \in Seq(Places)
      /\ cursor \in Places \cup {Start, End} /\ End \notin Places \cup {Start}
  BY DEF PagesInv, RecordPagesTypeOK, Places, Start, End
<1>2. CASE Begin
  <2>1. cursor' = Start /\ listed' = <<>> /\ kept' = table /\ table' = table
    BY <1>2 DEF Begin
  <2>2. \A p \in Places : Before(p, Start)
    BY DEF Before, Places, Start
  <2>. QED
    BY <1>1, <2>1, <2>2 DEF PagesInv, RecordPagesTypeOK, Descends
<1>3. ASSUME NEW limit \in 0..(MaxLimit + 1), ListPage(normalizeLimit(limit))
      PROVE  PagesInv'
  <2>1. normalizeLimit(limit) \in Nat \ {0}
    BY DEF normalizeLimit
  <2>. QED
    BY <1>3, <2>1, PageKeeps
<1>4. CASE Store
  <2>1. PICK t \in 1..LastTime, id \in 1..MaxRows : table' = table \cup {<<t, id>>}
    BY <1>4 DEF Store
  <2>2. <<t, id>> \in Places
    BY DEF Places
  <2>. QED
    BY <1>1, <1>4, <2>1, <2>2 DEF Store, PagesInv, RecordPagesTypeOK
<1>5. CASE Delete
  BY <1>1, <1>5 DEF Delete, PagesInv, RecordPagesTypeOK
<1>6. CASE UNCHANGED recordPagesVars
  BY <1>6 DEF recordPagesVars, PagesInv, RecordPagesTypeOK
<1>. QED
  BY <1>2, <1>3, <1>4, <1>5, <1>6 DEF RecordPagesNext

(***************************************************************************)
(* Keyset paging neither repeats nor skips, for any table and any page     *)
(* size, while rows appear and disappear anywhere (usage/reader.go         *)
(* ListRequests; control/cursor.go).                                       *)
(***************************************************************************)
THEOREM ListingsComplete == RecordPagesSpec => []PagesAreComplete
<1>1. RecordPagesInit => PagesInv
  BY RecordPagesAssumption DEF RecordPagesInit, PagesInv, RecordPagesTypeOK, Descends
<1>2. PagesInv => PagesAreComplete
  <2>. SUFFICES ASSUME PagesInv PROVE PagesAreComplete
    OBVIOUS
  <2>1. listed \in Seq(Places) /\ Places \subseteq Nat \X Nat
    BY RecordPagesAssumption DEF PagesInv, RecordPagesTypeOK, Places
  <2>2. ASSUME NEW i \in DOMAIN listed, NEW j \in DOMAIN listed, listed[i] = listed[j], i # j
        PROVE  FALSE
    <3>1. i < j \/ j < i
      BY <2>1, <2>2
    <3>. QED
      BY <2>1, <2>2, <3>1, PlacesOrdered DEF PagesInv, Descends
  <2>3. cursor = End => kept \subseteq ToSet(listed)
    BY DEF PagesInv, ToSet
  <2>. QED
    BY <2>2, <2>3 DEF PagesAreComplete, IsInjective
<1>. QED
  BY <1>1, <1>2, PagesStep, PTL DEF RecordPagesSpec

-----------------------------------------------------------------------------
MaybeKey == MasterKeys \cup {NoMasterKey}

\* The steps of a command between its Acquire and its Close of the lock.
Holding == {"open", "verify", "work", "stop", "drain", "flush", "close", "unlock"}

Locked(p) ==
  /\ proc[p].step \in Holding => holder = p
  /\ proc[p].step \in Holding \cup {"lock"} => proc[p].command # "backup"

\* A command has the master key until the deferred calls.
Keyed(p) ==
  /\ proc[p].step \in {"lock", "open", "verify", "work", "stop", "drain", "flush"} =>
       /\ proc[p].key \in MasterKeys
       /\ proc[p].command = "rotate" => proc[p].newKey \in MasterKeys
  /\ At(p, "rotate", "check") => proc[p].key \in MasterKeys /\ proc[p].newKey \in MasterKeys

\* What a command has found in the database is still there.
Current(p) ==
  /\ proc[p].step \in {"verify", "work"} => db.schema = proc[p].build
  /\ DatabaseInUse(p) \/ (proc[p].command = "serve" /\ proc[p].step \in {"drain", "flush"}) =>
       proc[p].key \in MasterKeys /\ proc[p].key = db.sentinel

\* How far a shutdown is with the handlers and their events.
Draining(p) ==
  /\ proc[p].step \notin {"close", "unlock"} => ~proc[p].closed
  /\ ~proc[p].closed => proc[p].lost \subseteq {"full"}
  /\ proc[p].step \in {"flush", "close", "unlock"} /\ proc[p].clean => proc[p].handlers = 0
  /\ proc[p].step \in {"close", "unlock"} /\ proc[p].clean => proc[p].lost \subseteq {"full"}

\* A copy that is published opens; one that is signed was published.
SelfOpens(content) == Opens(content.sentinel, content, content.schema)

Unsigned(o) == backup[o].exists /\ backup[o].checksum # "fits" /\ SelfOpens(backup[o].content)

Copying(p) ==
  /\ proc[p].command = "backup" => proc[p].output \in Outputs
  /\ At(p, "backup", "publish") => Opens(proc[p].key, proc[p].copy, proc[p].build)
  /\ At(p, "backup", "sign") => Unsigned(proc[p].output)

\* Two backups are never about to sign the same output.
OneSigner ==
  \A p, q \in Processes :
    At(p, "backup", "sign") /\ At(q, "backup", "sign") /\ p # q => proc[p].output # proc[q].output

SignedOpens == \A o \in Outputs :
  backup[o].checksum = "fits" => backup[o].exists /\ SelfOpens(backup[o].content)

\* Only columns that a migration has made hold values.
ColumnsExist == \A c \in Columns : db.sealed[c] # {} => c <= db.schema

PInv ==
  /\ ProcessTypeOK
  /\ \A p \in Processes : Locked(p) /\ Keyed(p) /\ Current(p) /\ Draining(p) /\ Copying(p)
  /\ OneSigner /\ SignedOpens
  /\ ColumnsExist /\ OneKeyOpensAll

-----------------------------------------------------------------------------
(***************************************************************************)
(* The records of processes.                                               *)
(***************************************************************************)
LEMMA Fields ==
  ASSUME NEW r \in Proc
  PROVE  /\ r.command \in Commands \cup {"none"} /\ r.step \in Steps /\ r.build \in Nat
         /\ r.key \in MaybeKey /\ r.newKey \in MaybeKey /\ r.output \in Outputs \cup {NoOutput}
         /\ r.copy \in Database /\ r.handlers \in Nat
         /\ r.queued \in BOOLEAN /\ r.closed \in BOOLEAN /\ r.lost \subseteq Losses
         /\ r.clean \in BOOLEAN
BY DEF Proc, MaybeKey

LEMMA EmptyIsDatabase == EmptyDatabase \in Database
BY DEF EmptyDatabase, Database

LEMMA OffRow ==
  /\ Off \in Proc
  /\ Off.command = "none" /\ Off.step = "off" /\ ~Off.closed /\ Off.lost = {} /\ Off.handlers = 0
  /\ Off.output = NoOutput /\ Off.clean
BY EmptyIsDatabase DEF Off, Proc, Commands, Steps

\* A step, with or without an error, changes nothing else of a process.
Follows(t, r, s) ==
  /\ t \in Proc
  /\ t.step = s /\ t.command = r.command /\ t.build = r.build /\ t.key = r.key
  /\ t.newKey = r.newKey /\ t.output = r.output /\ t.copy = r.copy
  /\ t.handlers = r.handlers /\ t.closed = r.closed /\ t.lost = r.lost
  /\ t.clean => r.clean

LEMMA GoRow ==
  ASSUME NEW r \in Proc, NEW s \in Steps
  PROVE  /\ Follows([r EXCEPT !.step = s], r, s)
         /\ Follows([r EXCEPT !.step = s, !.clean = FALSE], r, s)
         /\ ~[r EXCEPT !.step = s, !.clean = FALSE].clean
BY DEF Proc, Follows

Returned(command, error) ==
  [Off EXCEPT !.command = command, !.step = "close", !.clean = ~error]

LEMMA ReturnRow ==
  ASSUME NEW command \in Commands \cup {"none"}, NEW error \in BOOLEAN
  PROVE  LET t == Returned(command, error)
         IN  /\ t \in Proc
             /\ t.step = "close" /\ t.command = command /\ t.handlers = 0
             /\ ~t.closed /\ t.lost = {} /\ t.output = NoOutput
BY EmptyIsDatabase DEF Returned, Off, Proc, Commands, Steps

LEMMA CloseRow ==
  ASSUME NEW r \in Proc
  PROVE  LET t == [r EXCEPT !.step = "unlock", !.key = NoMasterKey, !.build = 0]
         IN  /\ t \in Proc
             /\ t.step = "unlock" /\ t.command = r.command /\ t.output = r.output
             /\ t.handlers = r.handlers /\ t.closed = r.closed /\ t.lost = r.lost
             /\ t.clean = r.clean
BY DEF Proc, Steps

\* Another number of handlers changes no more of a process than its queue and
\* what it has lost.
Handles(t, r, n) ==
  /\ t \in Proc
  /\ t.step = r.step /\ t.command = r.command /\ t.build = r.build /\ t.key = r.key
  /\ t.newKey = r.newKey /\ t.output = r.output /\ t.copy = r.copy
  /\ t.handlers = n /\ t.closed = r.closed /\ t.clean = r.clean

LEMMA HandlersRow ==
  ASSUME NEW r \in Proc, NEW n \in Nat
  PROVE  /\ Handles([r EXCEPT !.handlers = n], r, n)
         /\ [r EXCEPT !.handlers = n].lost = r.lost
BY DEF Proc, Handles

Ended(r, n, queued, lost) == [r EXCEPT !.handlers = n, !.queued = queued, !.lost = lost]

LEMMA EndedRow ==
  ASSUME NEW r \in Proc, NEW n \in Nat, NEW queued \in BOOLEAN, NEW lost \in SUBSET Losses
  PROVE  /\ Handles(Ended(r, n, queued, lost), r, n)
         /\ Ended(r, n, queued, lost).lost = lost
BY DEF Proc, Handles, Ended

LEMMA CopyRow ==
  ASSUME NEW r \in Proc, NEW copy \in Database
  PROVE  /\ LET t == [r EXCEPT !.step = "inspect", !.copy = copy]
            IN  /\ t \in Proc
                /\ t.step = "inspect" /\ t.command = r.command /\ t.output = r.output
                /\ t.closed = r.closed /\ t.lost = r.lost
         /\ LET t == [r EXCEPT !.step = "lock", !.output = NoOutput]
            IN  /\ t \in Proc
                /\ t.step = "lock" /\ t.command = r.command /\ t.output = NoOutput
                /\ t.key = r.key /\ t.newKey = r.newKey
                /\ t.closed = r.closed /\ t.lost = r.lost
BY DEF Proc, Steps

-----------------------------------------------------------------------------
(***************************************************************************)
(* What a step does to the process that takes it, and to the others.       *)
(***************************************************************************)
Sound(p) == Locked(p) /\ Keyed(p) /\ Current(p) /\ Draining(p) /\ Copying(p)

Becomes(p, t) ==
  /\ proc' \in [Processes -> Proc] /\ proc'[p] = t
  /\ \A q \in Processes : q # p => proc'[q] = proc[q]

LEMMA Becoming ==
  ASSUME ProcessTypeOK, NEW p \in Processes, NEW t \in Proc, proc' = [proc EXCEPT ![p] = t]
  PROVE  Becomes(p, t)
BY DEF ProcessTypeOK, Becomes

\* A process that is off has nothing to keep.
LEMMA OffSound ==
  ASSUME ProcessTypeOK, NEW p \in Processes, proc' = [proc EXCEPT ![p] = Off]
  PROVE  Becomes(p, Off) /\ Sound(p)'
<1>1. Becomes(p, Off)
  BY OffRow, Becoming
<1>2. proc'[p] = Off
  BY <1>1 DEF Becomes
<1>3. QED
  BY <1>1, <1>2, OffRow
  DEF Sound, Locked, Holding, Keyed, Current, DatabaseInUse, Draining, Copying, At

\* A command that returns still holds the lock.
LEMMA ReturnSound ==
  ASSUME PInv, NEW p \in Processes, NEW error \in BOOLEAN, Return(p, error),
         proc[p].step \in Holding, holder' = holder
  PROVE  Sound(p)' /\ \E t : Becomes(p, t) /\ t.step = "close"
<1>. DEFINE t == Returned(proc[p].command, error)
<1>1. proc[p] \in Proc
  BY DEF PInv, ProcessTypeOK
<1>2. proc[p].command \in Commands \cup {"none"}
  BY <1>1, Fields
<1>3. /\ t \in Proc /\ t.step = "close" /\ t.command = proc[p].command /\ t.handlers = 0
      /\ ~t.closed /\ t.lost = {}
  BY <1>1, <1>2, ReturnRow
<1>4. proc' = [proc EXCEPT ![p] = t]
  BY DEF Return, Returned
<1>. HIDE DEF t
<1>5. Becomes(p, t)
  BY <1>3, <1>4, Becoming DEF PInv
<1>6. proc'[p] = t /\ holder = p /\ proc[p].command # "backup"
  BY <1>5 DEF Becomes, PInv, Locked
<1>7. Sound(p)'
  BY <1>3, <1>6
  DEF Sound, Locked, Holding, Keyed, Current, DatabaseInUse, Draining, Copying, At
<1>8. QED
  BY <1>3, <1>5, <1>7

\* A step forward, with or without an error.
LEMMA Going ==
  ASSUME ProcessTypeOK, NEW p \in Processes, NEW s \in Steps,
         Go(p, s) \/ GoWithError(p, s)
  PROVE  \E t : Becomes(p, t) /\ Follows(t, proc[p], s) /\ (GoWithError(p, s) => ~t.clean)
<1>. DEFINE t == [proc[p] EXCEPT !.step = s]
            u == [proc[p] EXCEPT !.step = s, !.clean = FALSE]
<1>1. proc[p] \in Proc
  BY DEF ProcessTypeOK
<1>2. /\ Go(p, s) => proc' = [proc EXCEPT ![p] = t]
      /\ GoWithError(p, s) => proc' = [proc EXCEPT ![p] = u]
  BY DEF Go, GoWithError
<1>3. Follows(t, proc[p], s) /\ Follows(u, proc[p], s) /\ ~u.clean
  BY <1>1, GoRow
<1>. HIDE DEF t, u
<1>4. \A x : Follows(x, proc[p], s) /\ proc' = [proc EXCEPT ![p] = x] => Becomes(p, x)
  BY Becoming DEF Follows
<1>5. CASE GoWithError(p, s)
  BY <1>2, <1>3, <1>4, <1>5
<1>6. CASE ~GoWithError(p, s)
  BY <1>2, <1>3, <1>4, <1>6
<1>7. QED
  BY <1>5, <1>6

\* A step of a process that keeps what the process knows.
Steady(p) ==
  /\ proc' \in [Processes -> Proc]
  /\ \A q \in Processes : q # p => proc'[q] = proc[q]
  /\ Sound(p)'
  /\ At(p, "backup", "sign")' =>
       \/ proc' = proc
       \/ proc'[p].output = proc[p].output /\ ~backup[proc[p].output].exists

LEMMA DatabaseFields ==
  ASSUME NEW d \in Database
  PROVE  /\ d.schema \in Nat /\ d.sentinel \in MaybeKey
         /\ d.sealed \in [Columns -> SUBSET MasterKeys]
BY DEF Database, MaybeKey

\* Opening the data directory.
LEMMA LockSteady ==
  ASSUME PInv, NEW p \in Processes, AcquireLock(p) \/ ReleaseLock(p) \/ CloseDatabase(p)
  PROVE  Steady(p)
<1>1. /\ ProcessTypeOK /\ Sound(p) /\ proc[p] \in Proc
      /\ \A s \in {"open", "unlock"} : s \in Steps
  BY DEF PInv, ProcessTypeOK, Sound, Steps
<1>2. CASE proc' = [proc EXCEPT ![p] = Off]
  <2>1. Becomes(p, Off) /\ Sound(p)'
    BY <1>1, <1>2, OffSound
  <2>2. QED
    BY <2>1, OffRow DEF Becomes, Steady, At
<1>3. CASE AcquireLock(p) /\ holder' = p /\ Go(p, "open")
  <2>1. PICK t : Becomes(p, t) /\ Follows(t, proc[p], "open")
    BY <1>1, <1>3, Going
  <2>2. proc[p].step = "lock"
    BY <1>3 DEF AcquireLock
  <2>3. Sound(p)'
    BY <1>1, <1>3, <2>1, <2>2
    DEF Becomes, Follows, Sound, Locked, Holding, Keyed, Current, DatabaseInUse, Draining,
        Copying, At
  <2>4. QED
    BY <2>1, <2>3 DEF Becomes, Follows, Steady, At
<1>4. CASE CloseDatabase(p)
  <2> DEFINE t == [proc[p] EXCEPT !.step = "unlock", !.key = NoMasterKey, !.build = 0]
  <2>1. /\ t \in Proc /\ t.step = "unlock" /\ t.command = proc[p].command
        /\ t.output = proc[p].output /\ t.handlers = proc[p].handlers
        /\ t.closed = proc[p].closed /\ t.lost = proc[p].lost /\ t.clean = proc[p].clean
    BY <1>1, CloseRow
  <2>2. proc' = [proc EXCEPT ![p] = t] /\ proc[p].step = "close" /\ holder' = holder
    BY <1>4 DEF CloseDatabase
  <2>. HIDE DEF t
  <2>3. Becomes(p, t)
    BY <1>1, <2>1, <2>2, Becoming
  <2>4. Sound(p)'
    BY <1>1, <2>1, <2>2, <2>3
    DEF Becomes, Sound, Locked, Holding, Keyed, Current, DatabaseInUse, Draining, Copying, At
  <2>5. QED
    BY <2>1, <2>3, <2>4 DEF Becomes, Steady, At
<1>5. QED
  BY <1>2, <1>3, <1>4 DEF AcquireLock, ReleaseLock

LEMMA MigrateSteady ==
  ASSUME PInv, NEW p \in Processes, Migrate(p)
  PROVE  Steady(p)
<1>1. /\ ProcessTypeOK /\ Sound(p) /\ proc[p] \in Proc /\ proc[p].step = "open"
      /\ db.schema \in Nat /\ proc[p].build \in Nat /\ holder' = holder
      /\ \A s \in {"work", "verify"} : s \in Steps
  BY DatabaseFields, Fields DEF PInv, ProcessTypeOK, Sound, Steps, Migrate
<1>2. CASE proc' = proc
  <2>1. Sound(p)'
    BY <1>1, <1>2
    DEF Migrate, Sound, Locked, Holding, Keyed, Current, DatabaseInUse, Draining, Copying, At
  <2>2. QED
    BY <1>1, <1>2, <2>1 DEF Steady, ProcessTypeOK
<1>3. CASE Return(p, TRUE)
  <2>1. Sound(p)' /\ \E t : Becomes(p, t) /\ t.step = "close"
    BY <1>1, <1>3, ReturnSound DEF Migrate, Holding
  <2>2. QED
    BY <2>1 DEF Becomes, Steady, At
<1>4. ASSUME NEW s \in {"work", "verify"}, Go(p, s), s = "work" => proc[p].command = "rotate",
             db.schema = proc[p].build, db' = db
      PROVE  Steady(p)
  <2>1. PICK t : Becomes(p, t) /\ Follows(t, proc[p], s)
    BY <1>1, <1>4, Going
  <2>2. Sound(p)'
    BY <1>1, <1>4, <2>1
    DEF Becomes, Follows, Sound, Locked, Holding, Keyed, Current, DatabaseInUse,
        Draining, Copying, At
  <2>3. QED
    BY <1>4, <2>1, <2>2 DEF Becomes, Follows, Steady, At
<1>5. CASE ~(db.schema < proc[p].build) /\ ~(db.schema > proc[p].build)
  <2>. DEFINE s == IF proc[p].command = "rotate" THEN "work" ELSE "verify"
  <2>1. db.schema = proc[p].build
    BY <1>1, <1>5
  <2>2. Go(p, s) /\ db' = db /\ s \in {"work", "verify"}
    BY <1>5 DEF Migrate
  <2>3. s = "work" => proc[p].command = "rotate"
    OBVIOUS
  <2>. HIDE DEF s
  <2>4. QED
    BY <1>4, <2>1, <2>2, <2>3
<1>6. CASE db.schema < proc[p].build
  BY <1>2, <1>6 DEF Migrate
<1>7. CASE db.schema > proc[p].build /\ ~(db.schema < proc[p].build)
  BY <1>3, <1>7 DEF Migrate
<1>8. QED
  BY <1>5, <1>6, <1>7

LEMMA VerifySteady ==
  ASSUME PInv, NEW p \in Processes, Verify(p)
  PROVE  Steady(p)
<1>1. /\ ProcessTypeOK /\ Sound(p) /\ proc[p] \in Proc /\ proc[p].step = "verify"
      /\ db \in Database /\ holder' = holder /\ "work" \in Steps
  BY DEF PInv, ProcessTypeOK, Sound, Steps, Verify
<1>2. CASE Go(p, "work") /\ db'.sentinel = proc[p].key /\ db'.schema = db.schema
  <2>1. PICK t : Becomes(p, t) /\ Follows(t, proc[p], "work")
    BY <1>1, <1>2, Going
  <2>2. Sound(p)'
    BY <1>1, <1>2, <2>1
    DEF Becomes, Follows, Sound, Locked, Holding, Keyed, Current, DatabaseInUse,
        Draining, Copying, At
  <2>3. QED
    BY <2>1, <2>2 DEF Becomes, Follows, Steady, At
<1>3. CASE Return(p, TRUE)
  <2>1. Sound(p)' /\ \E t : Becomes(p, t) /\ t.step = "close"
    BY <1>1, <1>3, ReturnSound DEF Verify, Holding
  <2>2. QED
    BY <2>1 DEF Becomes, Steady, At
<1>4. [db EXCEPT !.sentinel = proc[p].key].sentinel = proc[p].key
      /\ [db EXCEPT !.sentinel = proc[p].key].schema = db.schema
  BY <1>1 DEF Database
<1>5. QED
  BY <1>2, <1>3, <1>4 DEF Verify

\* Serving.
LEMMA SealSteady ==
  ASSUME PInv, NEW p \in Processes, SealRow(p) \/ DeleteSealed(p)
  PROVE  Steady(p)
<1>1. ProcessTypeOK /\ Sound(p) /\ db \in Database
  BY DEF PInv, ProcessTypeOK, Sound
<1>2. \A s : /\ [db EXCEPT !.sealed = s].schema = db.schema
             /\ [db EXCEPT !.sealed = s].sentinel = db.sentinel
  BY <1>1 DEF Database
<1>3. \E s : db' = [db EXCEPT !.sealed = s]
  BY DEF SealRow, DeleteSealed
<1>4. db'.schema = db.schema /\ db'.sentinel = db.sentinel
  BY <1>2, <1>3
<1>5. proc' = proc /\ holder' = holder /\ backup' = backup
  BY DEF SealRow, DeleteSealed
<1>6. Sound(p)'
  BY <1>1, <1>4, <1>5
  DEF Sound, Locked, Keyed, Current, DatabaseInUse, Draining, Copying, At, Unsigned
<1>7. QED
  BY <1>1, <1>5, <1>6 DEF Steady, ProcessTypeOK

LEMMA HandlerSteady ==
  ASSUME PInv, NEW p \in Processes, AcceptRequest(p) \/ EndRequest(p)
  PROVE  Steady(p)
<1>1. ProcessTypeOK /\ Sound(p) /\ proc[p] \in Proc /\ proc[p].handlers \in Nat
      /\ proc[p].closed \in BOOLEAN /\ proc[p].lost \subseteq Losses
  BY Fields DEF PInv, ProcessTypeOK, Sound
<1>2. db' = db /\ holder' = holder /\ backup' = backup /\ proc[p].command = "serve"
  BY DEF AcceptRequest, EndRequest, DatabaseInUse, At
<1>3. CASE AcceptRequest(p)
  <2> DEFINE n == proc[p].handlers + 1
             t == [proc[p] EXCEPT !.handlers = n]
  <2>1. n \in Nat
    BY <1>1
  <2>2. Handles(t, proc[p], n) /\ t.lost = proc[p].lost
    BY <1>1, <2>1, HandlersRow
  <2>3. proc' = [proc EXCEPT ![p] = t] /\ proc[p].step \in {"work", "stop"}
    BY <1>3 DEF AcceptRequest, At
  <2>. HIDE DEF t
  <2>4. Becomes(p, t)
    BY <1>1, <2>2, <2>3, Becoming DEF Handles
  <2>5. Sound(p)'
    BY <1>1, <1>2, <2>2, <2>3, <2>4
    DEF Handles, Becomes, Sound, Locked, Holding, Keyed, Current, DatabaseInUse, Draining, Copying, At
  <2>6. QED
    BY <1>2, <2>2, <2>4, <2>5 DEF Handles, Becomes, Steady, At
<1>4. CASE EndRequest(p)
  <2> DEFINE n == proc[p].handlers - 1
  <2>1. n \in Nat /\ n # proc[p].handlers /\ proc[p].handlers > 0 /\ DatabaseInUse(p)
    BY <1>1, <1>4 DEF EndRequest
  <2>2. PICK queued \in BOOLEAN, loss \in SUBSET Losses :
          /\ Enqueue(p, queued, loss)
          /\ proc[p].closed \/ loss \subseteq {"full"}
    <3>1. {} \in SUBSET Losses /\ {"full"} \in SUBSET Losses /\ {"closed"} \in SUBSET Losses
      BY DEF Losses
    <3>2. \/ Enqueue(p, TRUE, {})
          \/ Enqueue(p, TRUE, {"full"})
          \/ proc[p].closed /\ Enqueue(p, FALSE, {"closed"})
      BY <1>4 DEF EndRequest
    <3>3. {} \subseteq {"full"} /\ {"full"} \subseteq {"full"} /\ {TRUE, FALSE} = BOOLEAN
      OBVIOUS
    <3>4. CASE Enqueue(p, TRUE, {})
      BY <3>1, <3>3, <3>4, Zenon
    <3>5. CASE Enqueue(p, TRUE, {"full"})
      BY <3>1, <3>3, <3>5, Zenon
    <3>6. CASE proc[p].closed /\ Enqueue(p, FALSE, {"closed"})
      BY <3>1, <3>6, Zenon
    <3>7. QED
      BY <3>2, <3>4, <3>5, <3>6
  <2> DEFINE lost == proc[p].lost \cup loss
             t == Ended(proc[p], n, queued, lost)
  <2>3. /\ proc' = [proc EXCEPT ![p] = t] /\ lost \in SUBSET Losses
        /\ proc[p].closed \/ (proc[p].lost \subseteq {"full"} => lost \subseteq {"full"})
    BY <1>1, <2>2 DEF Enqueue, Ended
  <2>. HIDE DEF n, lost
  <2>4. Handles(t, proc[p], n) /\ t.lost = lost
    BY <1>1, <2>1, <2>3, EndedRow
  <2>. HIDE DEF t
  <2>6. Becomes(p, t)
    BY <1>1, <2>3, <2>4, Becoming DEF Handles
  <2>7. Sound(p)'
    BY <1>1, <1>2, <2>1, <2>2, <2>3, <2>4, <2>6
    DEF Handles, Becomes, Sound, Locked, Holding, Keyed, Current, DatabaseInUse, Draining, Copying, At
  <2>8. QED
    BY <1>2, <2>4, <2>6, <2>7 DEF Handles, Becomes, Steady, At
<1>5. QED
  BY <1>3, <1>4

LEMMA ShutdownSteady ==
  ASSUME PInv, NEW p \in Processes, StopServing(p) \/ BeginShutdown(p) \/ EndShutdown(p)
  PROVE  Steady(p)
<1>1. /\ ProcessTypeOK /\ Sound(p) /\ proc[p] \in Proc
      /\ \A s \in {"stop", "drain", "flush"} : s \in Steps
  BY DEF PInv, ProcessTypeOK, Sound, Steps
<1>2. /\ db' = db /\ holder' = holder /\ proc[p].command = "serve"
      /\ proc[p].step \in {"work", "stop", "drain"}
  BY DEF StopServing, BeginShutdown, EndShutdown, At
<1>3. ASSUME NEW s \in {"stop", "drain", "flush"}, Go(p, s) \/ GoWithError(p, s),
             s = "flush" => proc[p].handlers = 0 \/ GoWithError(p, s)
      PROVE  Steady(p)
  <2>1. PICK t : Becomes(p, t) /\ Follows(t, proc[p], s) /\ (GoWithError(p, s) => ~t.clean)
    BY <1>1, <1>3, Going
  <2>2. Sound(p)'
    BY <1>1, <1>2, <1>3, <2>1
    DEF Becomes, Follows, Sound, Locked, Holding, Keyed, Current, DatabaseInUse, Draining,
        Copying, At
  <2>3. QED
    BY <1>3, <2>1, <2>2 DEF Becomes, Follows, Steady, At
<1>4. QED
  BY <1>3 DEF StopServing, BeginShutdown, EndShutdown

Flushed(r, lost, clean) ==
  [r EXCEPT !.step = "close", !.closed = TRUE, !.queued = FALSE, !.lost = lost, !.clean = clean]

IsFlushed(t, r) ==
  /\ t \in Proc
  /\ t.step = "close" /\ t.command = r.command /\ t.key = r.key /\ t.output = r.output
  /\ t.handlers = r.handlers /\ t.closed

LEMMA FlushedRow ==
  ASSUME NEW r \in Proc, NEW lost \in SUBSET Losses, NEW clean \in BOOLEAN
  PROVE  /\ IsFlushed(Flushed(r, lost, clean), r)
         /\ Flushed(r, lost, clean).lost = lost
         /\ Flushed(r, lost, clean).clean <=> clean
BY DEF Proc, Steps, Flushed, IsFlushed

LEMMA FlushSteady ==
  ASSUME PInv, NEW p \in Processes, FlushUsage(p)
  PROVE  Steady(p)
<1>1. /\ ProcessTypeOK /\ Sound(p) /\ proc[p] \in Proc /\ db' = db /\ holder' = holder
      /\ proc[p].step = "flush" /\ proc[p].command = "serve"
      /\ proc[p].queued \in BOOLEAN /\ proc[p].lost \subseteq Losses /\ proc[p].clean \in BOOLEAN
  BY Fields DEF PInv, ProcessTypeOK, Sound, FlushUsage, At
<1>2. PICK flushed \in BOOLEAN :
        proc' = [proc EXCEPT ![p] =
          Flushed(proc[p],
                  IF flushed \/ ~proc[p].queued THEN proc[p].lost
                  ELSE proc[p].lost \cup {"given up"},
                  proc[p].clean /\ flushed)]
  BY DEF FlushUsage, Flushed
<1>3. PICK lost \in SUBSET Losses, clean \in BOOLEAN :
        /\ proc' = [proc EXCEPT ![p] = Flushed(proc[p], lost, clean)]
        /\ clean => proc[p].clean /\ lost = proc[p].lost
  BY <1>1, <1>2 DEF Losses
<1>. DEFINE t == Flushed(proc[p], lost, clean)
<1>4. proc' = [proc EXCEPT ![p] = t]
  BY <1>3
<1>5. IsFlushed(t, proc[p]) /\ t.lost = lost /\ (t.clean <=> clean)
  BY <1>1, FlushedRow
<1>. HIDE DEF t
<1>6. Becomes(p, t)
  BY <1>1, <1>4, <1>5, Becoming DEF IsFlushed
<1>7. Sound(p)'
  BY <1>1, <1>3, <1>5, <1>6
  DEF IsFlushed, Becomes, Sound, Locked, Holding, Keyed, Current, DatabaseInUse, Draining,
      Copying, At
<1>8. QED
  BY <1>5, <1>6, <1>7 DEF IsFlushed, Becomes, Steady, At

\* The commands of an operator.
LEMMA ReturnSteady ==
  ASSUME PInv, NEW p \in Processes, RotateKey(p) \/ ResetPassword(p)
  PROVE  Steady(p)
<1>1. Return(p, FALSE) /\ holder' = holder /\ proc[p].step \in Holding
  BY DEF RotateKey, ResetPassword, At, Holding
<1>2. Sound(p)' /\ \E t : Becomes(p, t) /\ t.step = "close"
  BY <1>1, ReturnSound
<1>3. QED
  BY <1>2 DEF Becomes, Steady, At

IsStarted(t, command, step) ==
  /\ t \in Proc
  /\ t.command = command /\ t.step = step /\ t.key = keyFile
  /\ ~t.closed /\ t.lost = {}

StartsServing(build) ==
  [Off EXCEPT !.command = "serve", !.step = "lock", !.build = build, !.key = keyFile]

StartsReset(build) ==
  [Off EXCEPT !.command = "reset", !.step = "lock", !.build = build, !.key = keyFile]

StartsBackup(build, o) ==
  [Off EXCEPT !.command = "backup", !.step = "check", !.build = build, !.key = keyFile,
              !.output = o]

StartsRotation(build, o, k) ==
  [Off EXCEPT !.command = "rotate", !.step = "check", !.build = build, !.key = keyFile,
              !.newKey = k, !.output = o]

LEMMA StartedRow ==
  ASSUME keyFile \in MasterKeys, NEW build \in Nat
  PROVE  /\ IsStarted(StartsServing(build), "serve", "lock")
         /\ IsStarted(StartsReset(build), "reset", "lock")
         /\ \A o \in Outputs : IsStarted(StartsBackup(build, o), "backup", "check")
                               /\ StartsBackup(build, o).output = o
         /\ \A o \in Outputs, k \in MasterKeys :
              IsStarted(StartsRotation(build, o, k), "rotate", "check")
              /\ StartsRotation(build, o, k).newKey = k
<1>. USE EmptyIsDatabase DEF IsStarted, Off, Proc, Commands, Steps
<1>1. IsStarted(StartsServing(build), "serve", "lock")
  BY DEF StartsServing
<1>2. IsStarted(StartsReset(build), "reset", "lock")
  BY DEF StartsReset
<1>3. ASSUME NEW o \in Outputs
      PROVE  IsStarted(StartsBackup(build, o), "backup", "check")
             /\ StartsBackup(build, o).output = o
  BY DEF StartsBackup
<1>4. ASSUME NEW o \in Outputs, NEW k \in MasterKeys
      PROVE  IsStarted(StartsRotation(build, o, k), "rotate", "check")
             /\ StartsRotation(build, o, k).newKey = k
  BY DEF StartsRotation
<1>5. QED
  BY <1>1, <1>2, <1>3, <1>4

LEMMA StartSteady ==
  ASSUME PInv, NEW p \in Processes, StartCommand(p)
  PROVE  Steady(p)
<1>1. ProcessTypeOK /\ Sound(p) /\ keyFile \in MasterKeys /\ Builds \subseteq Nat
  BY ProcessAssumption DEF PInv, ProcessTypeOK, Sound
<1>2. \E t : \E command \in Commands, step \in {"lock", "check"} :
        /\ proc' = [proc EXCEPT ![p] = t]
        /\ IsStarted(t, command, step)
        /\ command = "rotate" => t.newKey \in MasterKeys /\ step = "check"
        /\ command = "backup" => t.output \in Outputs /\ step = "check"
  <2>1. PICK build \in Builds :
          \/ proc' = [proc EXCEPT ![p] = StartsServing(build)]
          \/ proc' = [proc EXCEPT ![p] = StartsReset(build)]
          \/ \E o \in Outputs :
               \/ proc' = [proc EXCEPT ![p] = StartsBackup(build, o)]
               \/ \E k \in MasterKeys : proc' = [proc EXCEPT ![p] = StartsRotation(build, o, k)]
    BY DEF StartCommand, StartsServing, StartsReset, StartsBackup, StartsRotation
  <2>2. build \in Nat
    BY <1>1
  <2>3. QED
    BY <1>1, <2>1, <2>2, StartedRow DEF Commands
<1>3. PICK t : \E command \in Commands, step \in {"lock", "check"} :
        /\ proc' = [proc EXCEPT ![p] = t]
        /\ IsStarted(t, command, step)
        /\ command = "rotate" => t.newKey \in MasterKeys /\ step = "check"
        /\ command = "backup" => t.output \in Outputs /\ step = "check"
  BY <1>2
<1>4. Becomes(p, t)
  BY <1>1, <1>3, Becoming DEF IsStarted
<1>5. Sound(p)'
  BY <1>1, <1>3, <1>4
  DEF IsStarted, Becomes, Sound, Locked, Holding, Keyed, Current, DatabaseInUse, Draining,
      Copying, At
<1>6. QED
  BY <1>3, <1>4, <1>5 DEF IsStarted, Becomes, Steady, At

\* Backups, and the end of a process.
LEMMA OffSteady ==
  ASSUME PInv, NEW p \in Processes, proc' = [proc EXCEPT ![p] = Off]
  PROVE  Steady(p)
<1>1. Becomes(p, Off) /\ Sound(p)'
  BY OffSound DEF PInv
<1>2. QED
  BY <1>1, OffRow DEF Becomes, Steady, At

LEMMA SelfOpening ==
  ASSUME NEW masterKey, NEW content \in Database, NEW build \in Nat,
         Opens(masterKey, content, build)
  PROVE  SelfOpens(content)
BY DatabaseFields DEF Opens, SelfOpens

LEMMA BackupFields ==
  ASSUME NEW b \in Backups
  PROVE  b.content \in Database /\ b.exists \in BOOLEAN /\ b.checksum \in {"none", "fits", "other"}
BY DEF Backups

LEMMA BackupSteady ==
  ASSUME PInv, NEW p \in Processes,
         VerifyBackup(p) \/ CheckOutput(p) \/ onlineBackup(p) \/ VerifyCopy(p)
  PROVE  Steady(p)
<1>1. ProcessTypeOK /\ Sound(p) /\ proc[p] \in Proc /\ db \in Database
      /\ \A s \in {"copy", "publish"} : s \in Steps
  BY DEF PInv, ProcessTypeOK, Sound, Steps
<1>2. db' = db /\ holder' = holder /\ backup' = backup
  BY DEF VerifyBackup, CheckOutput, onlineBackup, VerifyCopy
<1>3. CASE proc' = [proc EXCEPT ![p] = Off]
  BY <1>3, OffSteady
<1>4. CASE VerifyBackup(p) /\ proc' # [proc EXCEPT ![p] = Off]
  <2> DEFINE t == [proc[p] EXCEPT !.step = "lock", !.output = NoOutput]
  <2>1. proc' = [proc EXCEPT ![p] = t] /\ At(p, "rotate", "check")
    BY <1>4 DEF VerifyBackup
  <2>2. /\ t \in Proc /\ t.step = "lock" /\ t.command = proc[p].command /\ t.output = NoOutput
        /\ t.key = proc[p].key /\ t.newKey = proc[p].newKey
        /\ t.closed = proc[p].closed /\ t.lost = proc[p].lost
    BY <1>1, EmptyIsDatabase, CopyRow
  <2>. HIDE DEF t
  <2>3. Becomes(p, t)
    BY <1>1, <2>1, <2>2, Becoming
  <2>4. Sound(p)'
    BY <1>1, <2>1, <2>2, <2>3
    DEF Becomes, Sound, Locked, Holding, Keyed, Current, DatabaseInUse, Draining, Copying, At
  <2>5. QED
    BY <2>2, <2>3, <2>4 DEF Becomes, Steady, At
<1>5. CASE onlineBackup(p)
  <2> DEFINE t == [proc[p] EXCEPT !.step = "inspect", !.copy = db]
  <2>1. proc' = [proc EXCEPT ![p] = t] /\ At(p, "backup", "copy")
    BY <1>5 DEF onlineBackup
  <2>2. /\ t \in Proc /\ t.step = "inspect" /\ t.command = proc[p].command
        /\ t.output = proc[p].output
        /\ t.closed = proc[p].closed /\ t.lost = proc[p].lost
    BY <1>1, CopyRow
  <2>. HIDE DEF t
  <2>3. Becomes(p, t)
    BY <1>1, <2>1, <2>2, Becoming
  <2>4. Sound(p)'
    BY <1>1, <2>1, <2>2, <2>3
    DEF Becomes, Sound, Locked, Holding, Keyed, Current, DatabaseInUse, Draining, Copying, At
  <2>5. QED
    BY <2>2, <2>3, <2>4 DEF Becomes, Steady, At
<1>6. ASSUME NEW s \in {"copy", "publish"}, Go(p, s), proc[p].command = "backup",
             proc[p].step \notin {"close", "unlock"},
             s = "publish" => Opens(proc[p].key, proc[p].copy, proc[p].build)
      PROVE  Steady(p)
  <2>1. PICK t : Becomes(p, t) /\ Follows(t, proc[p], s)
    BY <1>1, <1>6, Going
  <2>2. Sound(p)'
    BY <1>1, <1>2, <1>6, <2>1
    DEF Becomes, Follows, Sound, Locked, Holding, Keyed, Current, DatabaseInUse, Draining,
        Copying, At
  <2>3. QED
    BY <1>6, <2>1, <2>2 DEF Becomes, Follows, Steady, At
<1>7. CASE CheckOutput(p) /\ proc' # [proc EXCEPT ![p] = Off]
  BY <1>6, <1>7 DEF CheckOutput, At
<1>8. CASE VerifyCopy(p) /\ proc' # [proc EXCEPT ![p] = Off]
  BY <1>6, <1>8 DEF VerifyCopy, At
<1>9. QED
  BY <1>3, <1>4, <1>5, <1>7, <1>8

LEMMA PublishSteady ==
  ASSUME PInv, NEW p \in Processes, Publish(p)
  PROVE  Steady(p)
<1>1. ProcessTypeOK /\ Sound(p) /\ proc[p] \in Proc /\ "sign" \in Steps
  BY DEF PInv, ProcessTypeOK, Sound, Steps
<1>2. PICK o \in Outputs :
        /\ proc[p].output = o /\ At(p, "backup", "publish")
        /\ Opens(proc[p].key, proc[p].copy, proc[p].build)
  BY <1>1 DEF Publish, Sound, Copying, At
<1>3. CASE backup[o].exists
  BY <1>2, <1>3, OffSteady DEF Publish
<1>4. CASE ~backup[o].exists
  <2>1. /\ backup' = [backup EXCEPT ![o].exists = TRUE, ![o].content = proc[p].copy]
        /\ Go(p, "sign")
    BY <1>2, <1>4 DEF Publish
  <2>2. backup[o] \in Backups /\ backup[o].checksum # "fits"
    BY <1>2, <1>4 DEF PInv, ProcessTypeOK, SignedOpens
  <2>3. SelfOpens(proc[p].copy)
    BY <1>1, <1>2, SelfOpening, Fields
  <2>4. /\ backup'[o].exists /\ backup'[o].content = proc[p].copy
        /\ backup'[o].checksum = backup[o].checksum
    BY <1>1, <1>2, <2>1, <2>2 DEF Backups, ProcessTypeOK
  <2>5. Unsigned(o)'
    BY <2>2, <2>3, <2>4 DEF Unsigned
  <2>6. PICK t : Becomes(p, t) /\ Follows(t, proc[p], "sign")
    BY <1>1, <2>1, Going
  <2>7. proc'[p].output = o
    BY <1>2, <2>6 DEF Becomes, Follows
  <2>8. Unsigned(proc[p].output)'
    BY <2>5, <2>7 DEF Unsigned
  <2>9. Sound(p)'
    BY <1>1, <1>2, <2>6, <2>8
    DEF Becomes, Follows, Sound, Locked, Holding, Keyed, Current, DatabaseInUse, Draining,
        Copying, At
  <2>10. QED
    BY <1>2, <1>4, <2>6, <2>7, <2>9 DEF Becomes, Steady
<1>5. QED
  BY <1>3, <1>4

LEMMA CommandSteady ==
  ASSUME PInv, NEW p \in Processes, Command(p)
  PROVE  Steady(p)
<1>1. CASE WriteChecksum(p) \/ Kill(p)
  BY <1>1, OffSteady DEF WriteChecksum, Kill
<1>2. QED
  BY <1>1, LockSteady, MigrateSteady, VerifySteady, SealSteady, HandlerSteady, ShutdownSteady,
     FlushSteady, ReturnSteady, StartSteady, BackupSteady, PublishSteady
  DEF Command

-----------------------------------------------------------------------------
(***************************************************************************)
(* The database: only the holder of the lock writes it, and what it writes *)
(* is sealed under the key the sentinel names.                             *)
(***************************************************************************)
DatabaseSound == db \in Database /\ ColumnsExist /\ OneKeyOpensAll

\* What a new sentinel or new values do to the record of the database.
LEMMA DatabaseRows ==
  ASSUME NEW d \in Database
  PROVE  /\ \A k \in MasterKeys :
              LET e == [d EXCEPT !.sentinel = k]
              IN  e \in Database /\ e.schema = d.schema /\ e.sentinel = k /\ e.sealed = d.sealed
         /\ \A s \in [Columns -> SUBSET MasterKeys] :
              LET e == [d EXCEPT !.sealed = s]
              IN  e \in Database /\ e.schema = d.schema /\ e.sentinel = d.sentinel /\ e.sealed = s
         /\ \A n \in Nat :
              LET e == [d EXCEPT !.schema = n]
              IN  e \in Database /\ e.schema = n /\ e.sentinel = d.sentinel /\ e.sealed = d.sealed
BY DEF Database, MaybeKey

Rotated(d, k, s) == [d EXCEPT !.sentinel = k, !.sealed = s]

LEMMA RotatedRow ==
  ASSUME NEW d \in Database, NEW k \in MasterKeys, NEW s \in [Columns -> SUBSET MasterKeys]
  PROVE  /\ Rotated(d, k, s) \in Database /\ Rotated(d, k, s).schema = d.schema
         /\ Rotated(d, k, s).sentinel = k /\ Rotated(d, k, s).sealed = s
BY DEF Database, Rotated

LEMMA MigrateDatabase ==
  ASSUME PInv, NEW p \in Processes, Migrate(p)
  PROVE  DatabaseSound' /\ (db' = db \/ holder = p)
<1>1. DatabaseSound /\ Sound(p) /\ db.schema \in Nat
  BY DatabaseFields DEF PInv, ProcessTypeOK, DatabaseSound, Sound
<1>2. CASE db' = db
  BY <1>1, <1>2 DEF DatabaseSound, ColumnsExist, OneKeyOpensAll
<1>3. CASE db' = [db EXCEPT !.schema = db.schema + 1]
  <2> DEFINE n == db.schema + 1
  <2>1. n \in Nat /\ \A c \in Nat : c <= db.schema => c <= n
    BY <1>1
  <2>2. db' = [db EXCEPT !.schema = n]
    BY <1>3
  <2>. HIDE DEF n
  <2>3. /\ db' \in Database /\ db'.schema = n /\ db'.sentinel = db.sentinel
        /\ db'.sealed = db.sealed
    BY <1>1, <2>1, <2>2, DatabaseRows DEF DatabaseSound
  <2>4. QED
    BY <1>1, <2>1, <2>3, ProcessAssumption
    DEF DatabaseSound, ColumnsExist, OneKeyOpensAll, Migrate, Sound, Locked, Holding
<1>4. QED
  BY <1>2, <1>3 DEF Migrate

LEMMA VerifyDatabase ==
  ASSUME PInv, NEW p \in Processes, Verify(p)
  PROVE  DatabaseSound' /\ (db' = db \/ holder = p)
<1>1. DatabaseSound /\ Sound(p)
  BY DEF PInv, ProcessTypeOK, DatabaseSound, Sound
<1>2. CASE db' = db
  BY <1>1, <1>2 DEF DatabaseSound, ColumnsExist, OneKeyOpensAll
<1>3. CASE db.sentinel = NoMasterKey /\ db' = [db EXCEPT !.sentinel = proc[p].key]
  <2>1. PICK k \in MasterKeys : k = proc[p].key
    BY <1>1 DEF Verify, Sound, Keyed
  <2>2. /\ db' \in Database /\ db'.schema = db.schema /\ db'.sentinel = k
        /\ db'.sealed = db.sealed
    BY <1>1, <1>3, <2>1, DatabaseRows DEF DatabaseSound
  <2>3. \A c \in Columns : db.sealed[c] = {}
    BY <1>1, <1>3 DEF DatabaseSound, OneKeyOpensAll
  <2>4. QED
    BY <1>1, <2>2, <2>3
    DEF DatabaseSound, ColumnsExist, OneKeyOpensAll, Verify, Sound, Locked, Holding
<1>4. QED
  BY <1>2, <1>3 DEF Verify

\* Values that vanish, or are sealed under the sentinel's key.
LEMMA SealDatabase ==
  ASSUME PInv, NEW p \in Processes, SealRow(p) \/ DeleteSealed(p) \/ ResetPassword(p)
  PROVE  DatabaseSound' /\ (db' = db \/ holder = p)
<1>1. DatabaseSound /\ Sound(p) /\ db.sealed \in [Columns -> SUBSET MasterKeys]
  BY DatabaseFields DEF PInv, ProcessTypeOK, DatabaseSound, Sound
<1>2. holder = p
  BY <1>1 DEF SealRow, DeleteSealed, ResetPassword, DatabaseInUse, At, Sound, Locked, Holding
<1>3. ASSUME NEW s \in [Columns -> SUBSET MasterKeys], db' = [db EXCEPT !.sealed = s],
             \A c \in Columns : s[c] \subseteq db.sealed[c]
                                  \cup (IF c <= db.schema THEN {db.sentinel} \ {NoMasterKey} ELSE {})
      PROVE  DatabaseSound'
  <2>1. /\ db' \in Database /\ db'.schema = db.schema /\ db'.sentinel = db.sentinel
        /\ db'.sealed = s
    BY <1>1, <1>3, DatabaseRows DEF DatabaseSound
  <2>2. \A c \in Columns : s[c] # {} => c <= db.schema
    BY <1>1, <1>3 DEF DatabaseSound, ColumnsExist
  <2>3. \A c \in Columns : s[c] \subseteq {db.sentinel} \ {NoMasterKey}
    BY <1>1, <1>3 DEF DatabaseSound, OneKeyOpensAll
  <2>4. QED
    BY <2>1, <2>2, <2>3 DEF DatabaseSound, ColumnsExist, OneKeyOpensAll
<1>4. CASE SealRow(p)
  <2>1. PICK k \in MasterKeys : k = proc[p].key /\ db.sentinel = k /\ k # NoMasterKey
    BY <1>1, <1>4, ProcessAssumption DEF SealRow, Sound, Current
  <2>2. PICK c \in Columns :
          c <= db.schema /\ db' = [db EXCEPT !.sealed = [db.sealed EXCEPT ![c] = db.sealed[c] \cup {k}]]
    BY <1>4, <2>1 DEF SealRow
  <2>. DEFINE s == [db.sealed EXCEPT ![c] = db.sealed[c] \cup {k}]
  <2>3. s \in [Columns -> SUBSET MasterKeys]
    BY <1>1
  <2>4. \A x \in Columns : s[x] \subseteq db.sealed[x]
                             \cup (IF x <= db.schema THEN {db.sentinel} \ {NoMasterKey} ELSE {})
    BY <1>1, <2>1, <2>2
  <2>. HIDE DEF s
  <2>5. QED
    BY <1>2, <1>3, <2>2, <2>3, <2>4 DEF s
<1>5. ASSUME NEW c \in Columns, db' = [db EXCEPT !.sealed = [db.sealed EXCEPT ![c] = {}]]
      PROVE  DatabaseSound'
  <2>. DEFINE s == [db.sealed EXCEPT ![c] = {}]
  <2>1. s \in [Columns -> SUBSET MasterKeys] /\ \A x \in Columns : s[x] \subseteq db.sealed[x]
    BY <1>1
  <2>2. db' = [db EXCEPT !.sealed = s]
    BY <1>5
  <2>. HIDE DEF s
  <2>3. QED
    BY <1>3, <2>1, <2>2
<1>6. CASE DeleteSealed(p)
  <2>1. PICK c \in Columns : db' = [db EXCEPT !.sealed = [db.sealed EXCEPT ![c] = {}]]
    BY <1>6 DEF DeleteSealed
  <2>2. QED
    BY <1>2, <1>5, <2>1
<1>7. CASE ResetPassword(p)
  <2>1. PICK s \in {db.sealed} \cup {[db.sealed EXCEPT ![c] = {}] : c \in Columns} :
          db' = [db EXCEPT !.sealed = s]
    BY <1>7 DEF ResetPassword
  <2>2. CASE s = db.sealed
    <3>1. \A c \in Columns : s[c] \subseteq db.sealed[c]
                               \cup (IF c <= db.schema THEN {db.sentinel} \ {NoMasterKey} ELSE {})
      BY <2>2
    <3>2. QED
      BY <1>1, <1>2, <1>3, <2>1, <2>2, <3>1
  <2>3. CASE s # db.sealed
    <3>1. PICK c \in Columns : s = [db.sealed EXCEPT ![c] = {}]
      BY <2>3
    <3>2. QED
      BY <1>2, <1>5, <2>1, <3>1
  <2>4. QED
    BY <2>2, <2>3
<1>8. QED
  BY <1>2, <1>4, <1>6, <1>7

LEMMA RotateDatabase ==
  ASSUME PInv, NEW p \in Processes, RotateKey(p)
  PROVE  DatabaseSound' /\ (db' = db \/ holder = p)
<1>1. DatabaseSound /\ Sound(p) /\ db.sealed \in [Columns -> SUBSET MasterKeys]
  BY DatabaseFields DEF PInv, ProcessTypeOK, DatabaseSound, Sound
<1>2. CASE db' = db
  BY <1>1, <1>2 DEF DatabaseSound, ColumnsExist, OneKeyOpensAll
<1>3. CASE db' # db
  <2>1. PICK k \in MasterKeys : k = proc[p].newKey
    BY <1>1 DEF RotateKey, At, Sound, Keyed
  <2>2. PICK columns : columns = encryptedColumns(proc[p].build)
    OBVIOUS
  <2>. DEFINE s == [c \in Columns |-> IF c \in columns /\ db.sealed[c] # {} THEN {k} ELSE db.sealed[c]]
  <2>3. s \in [Columns -> SUBSET MasterKeys]
    BY <1>1
  <2>4. db' = Rotated(db, k, s)
    BY <1>3, <2>1, <2>2 DEF RotateKey, Rotated
  <2>5. \A c \in Columns : db.sealed[c] # {} => c \in columns
    BY <1>1, <2>2
    DEF DatabaseSound, ColumnsExist, encryptedColumns, RotateKey, At, Sound, Current
  <2>6. \A c \in Columns : s[c] \subseteq {k} \ {NoMasterKey} /\ (s[c] # {} => c <= db.schema)
    BY <1>1, <2>1, <2>5, ProcessAssumption DEF DatabaseSound, ColumnsExist
  <2>. HIDE DEF s
  <2>7. db' \in Database /\ db'.schema = db.schema /\ db'.sentinel = k /\ db'.sealed = s
    BY <1>1, <2>3, <2>4, RotatedRow DEF DatabaseSound
  <2>8. QED
    BY <1>1, <2>6, <2>7
    DEF DatabaseSound, ColumnsExist, OneKeyOpensAll, RotateKey, At, Sound, Locked, Holding
<1>4. QED
  BY <1>2, <1>3

LEMMA CommandDatabase ==
  ASSUME PInv, NEW p \in Processes, Command(p)
  PROVE  DatabaseSound' /\ (db' = db \/ holder = p)
<1>1. CASE db' = db
  BY <1>1 DEF PInv, ProcessTypeOK, DatabaseSound, ColumnsExist, OneKeyOpensAll
<1>2. CASE Migrate(p) \/ Verify(p) \/ SealRow(p) \/ DeleteSealed(p) \/ ResetPassword(p) \/ RotateKey(p)
  BY <1>2, MigrateDatabase, VerifyDatabase, SealDatabase, RotateDatabase
<1>3. QED
  BY <1>1, <1>2
  DEF Command, StartCommand, AcquireLock, CloseDatabase, ReleaseLock, AcceptRequest, EndRequest,
      StopServing, BeginShutdown, EndShutdown, FlushUsage, VerifyBackup, CheckOutput,
      onlineBackup, VerifyCopy, Publish, WriteChecksum, Kill

-----------------------------------------------------------------------------
(***************************************************************************)
(* The backups: a path is written by the command that has published there. *)
(***************************************************************************)
BackupsSound == backup \in [Outputs -> Backups] /\ SignedOpens

LEMMA BackupChange ==
  ASSUME BackupsSound, NEW o \in Outputs, NEW b \in Backups, backup' = [backup EXCEPT ![o] = b],
         b.checksum = "fits" => b.exists /\ SelfOpens(b.content)
  PROVE  BackupsSound' /\ \A x \in Outputs : x # o => backup'[x] = backup[x]
BY DEF BackupsSound, SignedOpens

Published(b, content) == [b EXCEPT !.exists = TRUE, !.content = content]
Withdrawn(b) == [b EXCEPT !.exists = FALSE, !.content = EmptyDatabase]
Marked(b, checksum) == [b EXCEPT !.checksum = checksum]

LEMMA BackupRows ==
  ASSUME NEW b \in Backups, NEW content \in Database, NEW checksum \in {"none", "fits", "other"}
  PROVE  /\ Published(b, content) \in Backups /\ Published(b, content).checksum = b.checksum
         /\ Withdrawn(b) \in Backups /\ Withdrawn(b).checksum = b.checksum
         /\ Marked(b, checksum) \in Backups /\ Marked(b, checksum).content = b.content
         /\ Marked(b, checksum).exists <=> b.exists
BY EmptyIsDatabase DEF Backups, Published, Withdrawn, Marked

LEMMA CommandBackups ==
  ASSUME PInv, NEW p \in Processes, Command(p)
  PROVE  /\ BackupsSound'
         /\ \A q \in Processes : q # p /\ At(q, "backup", "sign") =>
              backup'[proc[q].output] = backup[proc[q].output]
         /\ \A o \in Outputs : backup[o].checksum = "fits" => backup'[o] = backup[o]
<1>1. BackupsSound /\ Sound(p) /\ proc[p] \in Proc /\ \A o \in Outputs : backup[o] \in Backups
  BY DEF PInv, ProcessTypeOK, BackupsSound, Sound
<1>2. CASE backup' = backup
  BY <1>1, <1>2 DEF BackupsSound, SignedOpens
<1>3. ASSUME NEW o \in Outputs, NEW b \in Backups, backup' = [backup EXCEPT ![o] = b],
             b.checksum = "fits" => b.exists /\ SelfOpens(b.content),
             backup[o].checksum # "fits",
             \A q \in Processes : q # p /\ At(q, "backup", "sign") => proc[q].output # o
      PROVE  /\ BackupsSound'
             /\ \A q \in Processes : q # p /\ At(q, "backup", "sign") =>
                  backup'[proc[q].output] = backup[proc[q].output]
             /\ \A x \in Outputs : backup[x].checksum = "fits" => backup'[x] = backup[x]
  <2>1. BackupsSound' /\ \A x \in Outputs : x # o => backup'[x] = backup[x]
    BY <1>1, <1>3, BackupChange
  <2>2. \A q \in Processes : At(q, "backup", "sign") => proc[q].output \in Outputs
    BY DEF PInv, Copying, At
  <2>3. QED
    BY <1>3, <2>1, <2>2
<1>4. CASE Publish(p) /\ backup' # backup
  <2>1. PICK o \in Outputs : o = proc[p].output
    BY <1>1, <1>4 DEF Publish, At, Sound, Copying
  <2>2. ~backup[o].exists /\ backup' = [backup EXCEPT ![o].exists = TRUE, ![o].content = proc[p].copy]
    BY <1>4, <2>1 DEF Publish
  <2>. DEFINE b == Published(backup[o], proc[p].copy)
  <2>3. proc[p].copy \in Database /\ backup[o].checksum \in {"none", "other"}
    BY <1>1, <2>2, Fields, BackupFields DEF BackupsSound, SignedOpens
  <2>4. b \in Backups /\ b.checksum # "fits"
    BY <1>1, <2>3, BackupRows
  <2>5. backup' = [backup EXCEPT ![o] = b]
    BY <2>2 DEF Published
  <2>6. \A q \in Processes : q # p /\ At(q, "backup", "sign") => proc[q].output # o
    BY <2>2 DEF PInv, Copying, Unsigned
  <2>. HIDE DEF b
  <2>7. QED
    BY <1>3, <2>3, <2>4, <2>5, <2>6
<1>5. CASE At(p, "backup", "sign") /\ (WriteChecksum(p) \/ Kill(p)) /\ backup' # backup
  <2>1. PICK o \in Outputs : o = proc[p].output
    BY <1>1, <1>5 DEF At, Sound, Copying
  <2>2. backup[o].checksum # "fits" /\ backup[o].exists /\ SelfOpens(backup[o].content)
    BY <1>1, <1>5, <2>1 DEF Sound, Copying, Unsigned
  <2>3. \A q \in Processes : q # p /\ At(q, "backup", "sign") => proc[q].output # o
    BY <1>5, <2>1 DEF PInv, OneSigner
  <2>4. backup[o] \in Backups /\ backup[o].content \in Database /\ backup[o].exists \in BOOLEAN
        /\ backup[o].checksum \in {"none", "fits", "other"} /\ EmptyDatabase \in Database
    BY <1>1, BackupFields, EmptyIsDatabase
  <2>5. ASSUME NEW checksum \in {"fits", "other"}, backup' = [backup EXCEPT ![o].checksum = checksum]
        PROVE  \E b \in Backups : /\ backup' = [backup EXCEPT ![o] = b]
                                  /\ b.checksum = "fits" => b.exists /\ SelfOpens(b.content)
    <3>. DEFINE b == Marked(backup[o], checksum)
    <3>1. b \in Backups /\ b.content = backup[o].content /\ (backup[o].exists => b.exists)
      BY <2>4, BackupRows
    <3>2. backup' = [backup EXCEPT ![o] = b]
      BY <2>5 DEF Marked
    <3>. HIDE DEF b
    <3>3. QED
      BY <2>2, <3>1, <3>2
  <2>6. ASSUME backup' = [backup EXCEPT ![o].exists = FALSE, ![o].content = EmptyDatabase]
        PROVE  \E b \in Backups : /\ backup' = [backup EXCEPT ![o] = b]
                                  /\ b.checksum = "fits" => b.exists /\ SelfOpens(b.content)
    <3>. DEFINE b == Withdrawn(backup[o])
    <3>1. b \in Backups /\ b.checksum # "fits"
      BY <2>2, <2>4, BackupRows
    <3>2. backup' = [backup EXCEPT ![o] = b]
      BY <2>6 DEF Withdrawn
    <3>. HIDE DEF b
    <3>3. QED
      BY <3>1, <3>2
  <2>7. \/ \E checksum \in {"fits", "other"} : backup' = [backup EXCEPT ![o].checksum = checksum]
        \/ backup' = [backup EXCEPT ![o].exists = FALSE, ![o].content = EmptyDatabase]
    BY <1>5, <2>1 DEF WriteChecksum, Kill
  <2>8. PICK b \in Backups : /\ backup' = [backup EXCEPT ![o] = b]
                             /\ b.checksum = "fits" => b.exists /\ SelfOpens(b.content)
    BY <2>5, <2>6, <2>7
  <2>9. QED
    BY <1>3, <2>2, <2>3, <2>8
<1>6. QED
  BY <1>2, <1>4, <1>5
  DEF Command, StartCommand, AcquireLock, CloseDatabase, ReleaseLock, AcceptRequest, EndRequest,
      StopServing, BeginShutdown, EndShutdown, FlushUsage, VerifyBackup, CheckOutput,
      onlineBackup, VerifyCopy, Migrate, Verify, SealRow, DeleteSealed, ResetPassword, RotateKey,
      WriteChecksum, Kill, Publish

-----------------------------------------------------------------------------
(***************************************************************************)
(* Every step.                                                             *)
(***************************************************************************)
LEMMA CommandHolder ==
  ASSUME PInv, NEW p \in Processes, Command(p)
  PROVE  /\ holder' \in Processes \cup {NoProcess} /\ keyFile' = keyFile
         /\ \A q \in Processes : q # p /\ holder = q => holder' = q
<1>1. holder \in Processes \cup {NoProcess} /\ (proc[p].step = "unlock" => holder = p)
  BY DEF PInv, ProcessTypeOK, Locked, Holding
<1>2. CASE AcquireLock(p) \/ ReleaseLock(p) \/ Kill(p)
  BY <1>1, <1>2, ProcessAssumption DEF AcquireLock, ReleaseLock, Kill
<1>3. CASE UNCHANGED <<holder, keyFile>>
  BY <1>1, <1>3
<1>4. QED
  BY <1>2, <1>3
  DEF Command, StartCommand, CloseDatabase, AcceptRequest, EndRequest,
      StopServing, BeginShutdown, EndShutdown, FlushUsage, VerifyBackup, CheckOutput,
      onlineBackup, VerifyCopy, Migrate, Verify, SealRow, DeleteSealed, ResetPassword, RotateKey,
      WriteChecksum, Publish

LEMMA OthersSound ==
  ASSUME PInv, NEW p \in Processes, Command(p), Steady(p), NEW q \in Processes, q # p
  PROVE  Sound(q)'
<1>1. /\ Sound(q) /\ proc'[q] = proc[q] /\ (holder = q => holder' = q)
      /\ (proc[q].step \in Holding => db' = db)
      /\ (At(q, "backup", "sign") => backup'[proc[q].output] = backup[proc[q].output])
  BY CommandHolder, CommandDatabase, CommandBackups DEF PInv, Sound, Steady, Locked
<1>2. Locked(q)' /\ Keyed(q)' /\ Draining(q)' /\ Copying(q)'
  BY <1>1 DEF Sound, Locked, Keyed, Draining, Copying, Unsigned, At
<1>3. Current(q)'
  BY <1>1 DEF Sound, Current, DatabaseInUse, Holding
<1>4. QED
  BY <1>2, <1>3 DEF Sound

LEMMA CommandSigners ==
  ASSUME PInv, NEW p \in Processes, Command(p), Steady(p)
  PROVE  OneSigner'
<1>1. ASSUME NEW q \in Processes, q # p, At(p, "backup", "sign")', At(q, "backup", "sign")'
      PROVE  proc'[p].output # proc'[q].output
  <2>1. proc'[q] = proc[q] /\ At(q, "backup", "sign")
    BY <1>1 DEF Steady, At
  <2>2. CASE proc' = proc
    BY <1>1, <2>1, <2>2 DEF PInv, OneSigner, At
  <2>3. CASE proc'[p].output = proc[p].output /\ ~backup[proc[p].output].exists
    BY <2>1, <2>3 DEF PInv, Copying, Unsigned
  <2>4. QED
    BY <1>1, <2>2, <2>3 DEF Steady
<1>2. ASSUME NEW q \in Processes, NEW r \in Processes, q # p, r # p, q # r,
             At(q, "backup", "sign")', At(r, "backup", "sign")'
      PROVE  proc'[q].output # proc'[r].output
  BY <1>2 DEF Steady, At, PInv, OneSigner
<1>3. QED
  BY <1>1, <1>2 DEF OneSigner

LEMMA CommandKeeps ==
  ASSUME PInv, NEW p \in Processes, Command(p)
  PROVE  PInv'
<1>1. Steady(p)
  BY CommandSteady
<1>2. \A q \in Processes : Sound(q)'
  BY <1>1, OthersSound DEF Steady
<1>3. OneSigner' /\ DatabaseSound' /\ BackupsSound'
  BY <1>1, CommandSigners, CommandDatabase, CommandBackups
<1>4. ProcessTypeOK'
  BY <1>1, <1>3, CommandHolder DEF Steady, DatabaseSound, BackupsSound, PInv, ProcessTypeOK
<1>5. QED
  BY <1>2, <1>3, <1>4 DEF PInv, Sound, DatabaseSound, BackupsSound

\* The operator leaves the outputs alone that a command is about to write.
Cleared(b) == [NoBackup EXCEPT !.checksum = IF b.checksum = "none" THEN "none" ELSE "other"]

LEMMA ClearedRow ==
  ASSUME NEW b \in Backups
  PROVE  Cleared(b) \in Backups /\ Cleared(b).checksum # "fits"
BY EmptyIsDatabase DEF Backups, Cleared, NoBackup

LEMMA RemoveOutputKeeps == PInv /\ RemoveOutput => PInv'
<1>. SUFFICES ASSUME PInv, RemoveOutput PROVE PInv'
  OBVIOUS
<1>1. PICK o \in Outputs :
        /\ \A p \in Processes : proc[p].command = "backup" => proc[p].output # o
        /\ backup' = [backup EXCEPT ![o] = Cleared(backup[o])]
  BY DEF RemoveOutput, Cleared
<1>2. BackupsSound /\ backup[o] \in Backups
  BY DEF PInv, ProcessTypeOK, BackupsSound
<1>3. PICK b \in Backups : b = Cleared(backup[o]) /\ b.checksum # "fits"
  BY <1>2, ClearedRow
<1>4. BackupsSound' /\ \A x \in Outputs : x # o => backup'[x] = backup[x]
  BY <1>1, <1>2, <1>3, BackupChange
<1>5. proc' = proc /\ holder' = holder /\ keyFile' = keyFile /\ db' = db
  BY DEF RemoveOutput
<1>6. ASSUME NEW p \in Processes
      PROVE  Copying(p)'
  BY <1>1, <1>4, <1>5 DEF PInv, Copying, Unsigned, At
<1>7. ASSUME NEW p \in Processes
      PROVE  Locked(p)' /\ Keyed(p)' /\ Current(p)' /\ Draining(p)'
  BY <1>5 DEF PInv, Locked, Keyed, Current, DatabaseInUse, Draining, At
<1>8. ProcessTypeOK' /\ OneSigner' /\ ColumnsExist' /\ OneKeyOpensAll' /\ SignedOpens'
  BY <1>4, <1>5 DEF PInv, ProcessTypeOK, BackupsSound, OneSigner, At, ColumnsExist, OneKeyOpensAll
<1>9. QED
  BY <1>6, <1>7, <1>8 DEF PInv

LEMMA SameKeeps ==
  ASSUME PInv, proc' = proc, holder' = holder, db' = db, backup' = backup, keyFile' \in MasterKeys
  PROVE  PInv'
<1>1. ASSUME NEW p \in Processes
      PROVE  Locked(p)' /\ Keyed(p)' /\ Current(p)' /\ Draining(p)' /\ Copying(p)'
  BY DEF PInv, Locked, Keyed, Current, DatabaseInUse, Draining, Copying, Unsigned, At
<1>2. QED
  BY <1>1 DEF PInv, ProcessTypeOK, OneSigner, At, SignedOpens, ColumnsExist, OneKeyOpensAll

LEMMA ProcessInitInvariant == ProcessInit => PInv
<1>. SUFFICES ASSUME ProcessInit PROVE PInv
  OBVIOUS
<1>1. db \in Database /\ \A c \in Columns : db.sealed[c] = {}
  BY EmptyIsDatabase DEF ProcessInit, EmptyDatabase
<1>2. NoBackup \in Backups /\ NoBackup.checksum = "none"
  BY EmptyIsDatabase DEF NoBackup, Backups
<1>3. ASSUME NEW p \in Processes PROVE Sound(p)
  <2>1. proc[p] = Off
    BY DEF ProcessInit
  <2>2. QED
    BY <2>1, OffRow
    DEF Sound, Locked, Holding, Keyed, Current, DatabaseInUse, Draining, Copying, At
<1>4. ProcessTypeOK /\ SignedOpens
  BY <1>1, <1>2, OffRow DEF ProcessInit, ProcessTypeOK, SignedOpens
<1>5. OneSigner
  BY OffRow DEF OneSigner, At, ProcessInit
<1>6. QED
  BY <1>1, <1>3, <1>4, <1>5 DEF PInv, Sound, ColumnsExist, OneKeyOpensAll

LEMMA ProcessNextInvariant == PInv /\ [ProcessNext]_processVars => PInv'
<1>1. ASSUME PInv, ReplaceKeyFile \/ UNCHANGED processVars PROVE PInv'
  BY <1>1, SameKeeps DEF ReplaceKeyFile, processVars, PInv, ProcessTypeOK
<1>2. QED
  BY <1>1, CommandKeeps, RemoveOutputKeeps DEF ProcessNext

-----------------------------------------------------------------------------
(***************************************************************************)
(* What a command has checked holds as long as it relies on it.            *)
(***************************************************************************)
THEOREM CommandsAreSound == ProcessSpec => []PInv
BY ProcessInitInvariant, ProcessNextInvariant, PTL DEF ProcessSpec

(***************************************************************************)
(* Every variable keeps its type through every command and every kill.     *)
(***************************************************************************)
THEOREM ProcessTypeCorrect == ProcessSpec => []ProcessTypeOK
<1>1. PInv => ProcessTypeOK
  BY DEF PInv
<1>2. QED
  BY <1>1, CommandsAreSound, PTL

(***************************************************************************)
(* The sentinel's key opens every encrypted value, for any number of       *)
(* processes, keys, builds and columns (maintenance.go RotateKey, app.go   *)
(* Serve).                                                                 *)
(***************************************************************************)
THEOREM OneKey == ProcessSpec => []OneKeyOpensAll
<1>1. PInv => OneKeyOpensAll
  BY DEF PInv
<1>2. QED
  BY <1>1, CommandsAreSound, PTL

(***************************************************************************)
(* A server that ends without an error has no handler left and has lost no *)
(* event but one whose own write failed (app.go Serve's shutdown).         *)
(***************************************************************************)
THEOREM CleanExit == ProcessSpec => []CleanExitStoresAccepted
<1>1. PInv => CleanExitStoresAccepted
  BY DEF PInv, Draining, CleanExitStoresAccepted, At
<1>2. QED
  BY <1>1, CommandsAreSound, PTL

(***************************************************************************)
(* No command replaces or removes a signed backup, however many run        *)
(* (maintenance.go CreateBackup, publish).                                 *)
(***************************************************************************)
THEOREM BackupsStay == ProcessSpec => PublishedBackupsStay
<1>1. ASSUME PInv, [ProcessNext]_processVars, NEW o \in Outputs,
             backup[o].exists, backup[o].checksum = "fits"
      PROVE  /\ Opens(backup[o].content.sentinel, backup[o].content, backup[o].content.schema)
             /\ backup'[o] = backup[o] \/ RemoveOutput
  <2>1. SelfOpens(backup[o].content)
    BY <1>1 DEF PInv, SignedOpens
  <2>2. backup'[o] = backup[o] \/ RemoveOutput
    BY <1>1, CommandBackups DEF ProcessNext, ReplaceKeyFile, processVars
  <2>3. QED
    BY <2>1, <2>2 DEF SelfOpens
<1>2. PInv /\ [ProcessNext]_processVars =>
        [\A o \in Outputs : (backup[o].exists /\ backup[o].checksum = "fits") =>
           /\ Opens(backup[o].content.sentinel, backup[o].content, backup[o].content.schema)
           /\ backup'[o] = backup[o] \/ RemoveOutput]_processVars
  BY <1>1
<1>3. QED
  BY <1>2, CommandsAreSound, PTL DEF ProcessSpec, PublishedBackupsStay

(***************************************************************************)
(* Of the commands that change a data directory at most one is at work:    *)
(* from the Acquire to the Close of the lock it is the holder, however     *)
(* many are started, killed or end with an error (processlock.Acquire,     *)
(* Lock.Close); a backup, which only reads, runs beside it.                *)
(***************************************************************************)
OneCommandAtWork ==
  \A p, q \in Processes : proc[p].step \in Holding /\ proc[q].step \in Holding => p = q

THEOREM CommandsExclude == ProcessSpec => []OneCommandAtWork
<1>1. PInv => OneCommandAtWork
  BY DEF PInv, Locked, OneCommandAtWork
<1>2. QED
  BY <1>1, CommandsAreSound, PTL

(***************************************************************************)
(* A backup whose checksum file fits is there and opens with the key of    *)
(* its own sentinel, all of its values included, whatever was killed       *)
(* between the publication and the signature (CreateBackup, publish).      *)
(***************************************************************************)
SignedBackupsOpen ==
  \A o \in Outputs : backup[o].checksum = "fits" =>
    /\ backup[o].exists
    /\ Opens(backup[o].content.sentinel, backup[o].content, backup[o].content.schema)

THEOREM SignedBackupsAreGood == ProcessSpec => []SignedBackupsOpen
<1>1. PInv => SignedBackupsOpen
  BY DEF PInv, SignedOpens, SelfOpens, SignedBackupsOpen
<1>2. QED
  BY <1>1, CommandsAreSound, PTL
=============================================================================
