------------------------------ MODULE Resources ------------------------------
(***************************************************************************)
(* The resources an administrator edits (internal/control, with their      *)
(* handlers in internal/httpapi/handlers_control.go): proxies, upstreams,  *)
(* accounts and model routes, which refer to one another, and the request  *)
(* records that refer to them.  Several editors work at once: each is      *)
(* shown a resource with its ETag, and writes later with If-Match.         *)
(*                                                                         *)
(* A transaction is one step.  What is read outside of one is a step of    *)
(* its own: the candidates of a route that is shown, and the secrets that  *)
(* an update of a proxy keeps.  Names, addresses and flags are left out;   *)
(* the status and the credential of an account are in Accounts.            *)
(***************************************************************************)
EXTENDS Naturals, FiniteSets, Functions

CONSTANTS Proxies, Upstreams, Holders, Routes,   \* Holders are the accounts
          NoThing, Editors,
          MaxEdits, MaxLogged                    \* bounds on all versions together, and on records

Things == Proxies \cup Upstreams \cup Holders \cup Routes

ASSUME ResourcesAssumption ==
  /\ NoThing \notin Things
  /\ Proxies \cap (Upstreams \cup Holders \cup Routes) = {}
  /\ Upstreams \cap (Holders \cup Routes) = {}
  /\ Holders \cap Routes = {}
  /\ MaxEdits \in Nat
  /\ MaxLogged \in Nat

VARIABLES
  row,      \* what is stored of each resource; version 0 is no row
  editor,   \* what each editor was shown, or is writing
  logged    \* the pairs of account and upstream in request_records

resourcesVars == <<row, editor, logged>>

\* "google" is the provider of an upstream; of an account, that it is OAuth.
\* "secret" is the version that wrote the secrets of a proxy.
Row == [version : Nat, refs : SUBSET Things, google : BOOLEAN, secret : Nat]

NoRow == [version |-> 0, refs |-> {}, google |-> FALSE, secret |-> 0]

Editor ==
  [state : {"idle", "listing", "shown", "writing"}, thing : Things \cup {NoThing},
   version : Nat, refs : SUBSET Things, secret : Nat]

AtRest == [state |-> "idle", thing |-> NoThing, version |-> 0, refs |-> {}, secret |-> 0]

ResourcesInit ==
  /\ row = [x \in Things |-> NoRow]
  /\ editor = [e \in Editors |-> AtRest]
  /\ logged = {}

Present(s) == {x \in s : row[x].version > 0}

Edits == SumFunctionOnSet([x \in Things |-> row[x].version], Things)

\* A new identifier: one that nobody has ever seen.
Unused(x) == row[x] = NoRow /\ \A e \in Editors : editor[e].thing # x

\* lookupID and optionalInternalID: what a row may refer to when it is written.
AtMostOne(s) == {r \in SUBSET Present(s) : Cardinality(r) <= 1}

\* ON DELETE RESTRICT.
Referenced(x) ==
  \/ \E y \in Things : x \in row[y].refs
  \/ \E entry \in logged : x \in {entry[1], entry[2]}

Insert(x, refs, google) ==
  /\ Unused(x) /\ Edits < MaxEdits
  /\ row' = [row EXCEPT ![x] =
       [version |-> 1, refs |-> refs, google |-> google, secret |-> 1]]
  /\ UNCHANGED <<editor, logged>>

\* GET: the row and its ETag, in one statement.
Shown(e, x) ==
  /\ editor[e].state = "idle"
  /\ row[x].version > 0
  /\ editor' = [editor EXCEPT ![e] =
       [state |-> "shown", thing |-> x, version |-> row[x].version,
        refs |-> row[x].refs, secret |-> 0]]
  /\ UNCHANGED <<row, logged>>

\* requireVersion: PATCH and DELETE without an If-Match header are refused.
HasETag(e, x) == editor[e].state = "shown" /\ editor[e].thing = x

\* WHERE public_id = ? AND version = ?
Matches(e, x) == editor[e].version = row[x].version

Leave(e) == editor' = [editor EXCEPT ![e] = AtRest] /\ UNCHANGED logged

\* The outcome of a versioned UPDATE.  Otherwise notFoundOrVersion answers
\* and nothing is stored.
Rewrite(e, x, refs, secret) ==
  /\ Edits < MaxEdits
  /\ row' = IF Matches(e, x)
            THEN [row EXCEPT ![x].version = @ + 1, ![x].refs = refs, ![x].secret = secret]
            ELSE row
  /\ Leave(e)

\* The outcome of a versioned DELETE, which a reference restricts.
RemoveRow(e, x) ==
  /\ row' = IF Matches(e, x) /\ ~Referenced(x) THEN [row EXCEPT ![x] = NoRow] ELSE row
  /\ Leave(e)

-----------------------------------------------------------------------------
(* Proxies: control/proxy.go.                                              *)

CreateProxy(x) == Insert(x, {}, FALSE)

ShowProxy(e, x) == Shown(e, x)

\* The secrets an update keeps are read before its transaction.  Zero stands
\* for those the request brings.
ReadSecrets(e, x) ==
  /\ HasETag(e, x)
  /\ row[x].version > 0
  /\ \E secret \in {0, row[x].secret} :
       editor' = [editor EXCEPT ![e].state = "writing", ![e].secret = secret]
  /\ UNCHANGED <<row, logged>>

\* Mutant of UpdateProxy: the update forgets AND version = ?.
UpdateProxyUnversioned(e, x) ==
  /\ editor[e].state = "writing" /\ editor[e].thing = x
  /\ row[x].version > 0 /\ Edits < MaxEdits
  /\ row' = [row EXCEPT ![x].version = @ + 1,
       ![x].secret = IF editor[e].secret = 0 THEN row[x].version + 1 ELSE editor[e].secret]
  /\ Leave(e)

UpdateProxy(e, x) ==
  /\ editor[e].state = "writing" /\ editor[e].thing = x
  /\ Rewrite(e, x, {}, IF editor[e].secret = 0 THEN row[x].version + 1 ELSE editor[e].secret)

DeleteProxy(e, x) == HasETag(e, x) /\ RemoveRow(e, x)

\* The five handlers; those that write pass on the version of If-Match.
ProxyHandlers ==
  \E x \in Proxies :
    \/ CreateProxy(x)
    \/ \E e \in Editors :
         ShowProxy(e, x) \/ ReadSecrets(e, x) \/ UpdateProxy(e, x) \/ DeleteProxy(e, x)

-----------------------------------------------------------------------------
(* Upstreams: control/upstream.go.                                         *)

CreateUpstream(x) ==
  \E google \in BOOLEAN, refs \in AtMostOne(Proxies) : Insert(x, refs, google)

ShowUpstream(e, x) == Shown(e, x)

\* Mutant of UpdateUpstream: the provider may be changed.
UpdateUpstreamAnyProvider(e, x) ==
  /\ HasETag(e, x)
  /\ Edits < MaxEdits
  /\ \E google \in BOOLEAN, refs \in AtMostOne(Proxies) :
       row' = IF Matches(e, x)
              THEN [row EXCEPT ![x].version = @ + 1, ![x].refs = refs, ![x].google = google]
              ELSE row
  /\ Leave(e)

\* The provider in the request has to be the stored one.
UpdateUpstream(e, x) ==
  /\ HasETag(e, x)
  /\ \E google \in BOOLEAN, refs \in AtMostOne(Proxies) :
       IF google = row[x].google
       THEN Rewrite(e, x, refs, 1)
       ELSE Leave(e) /\ UNCHANGED row

DeleteUpstream(e, x) == HasETag(e, x) /\ RemoveRow(e, x)

UpstreamHandlers ==
  \E x \in Upstreams :
    \/ CreateUpstream(x)
    \/ \E e \in Editors : ShowUpstream(e, x) \/ UpdateUpstream(e, x) \/ DeleteUpstream(e, x)

-----------------------------------------------------------------------------
(* Accounts: the references of control/account.go.                         *)

\* An OAuth account needs an upstream of Google.
Egress(oauth) ==
  {{u} \cup proxy : u \in {v \in Present(Upstreams) : oauth => row[v].google},
                    proxy \in AtMostOne(Proxies)}

CreateHolder(x) == \E oauth \in BOOLEAN : \E refs \in Egress(oauth) : Insert(x, refs, oauth)

ShowHolder(e, x) == Shown(e, x)

\* The kind of an account is the stored one.
UpdateHolder(e, x) ==
  /\ HasETag(e, x)
  /\ \E refs \in Egress(row[x].google) : Rewrite(e, x, refs, 1)

DeleteHolder(e, x) == HasETag(e, x) /\ RemoveRow(e, x)

AccountHandlers ==
  \E x \in Holders :
    \/ CreateHolder(x)
    \/ \E e \in Editors : ShowHolder(e, x) \/ UpdateHolder(e, x) \/ DeleteHolder(e, x)

-----------------------------------------------------------------------------
(* Model routes: control/route.go.                                         *)

\* validateRouteInput and replaceCandidates: at least one account, all of
\* which exist.
CandidateSets == (SUBSET Present(Holders)) \ {{}}

CreateModelRoute(x) == \E refs \in CandidateSets : Insert(x, refs, FALSE)

\* GetModelRoute reads the row with its version, then the candidates.
ShowRoute(e, x) ==
  /\ editor[e].state = "idle"
  /\ row[x].version > 0
  /\ editor' = [editor EXCEPT ![e] =
       [AtRest EXCEPT !.state = "listing", !.thing = x, !.version = row[x].version]]
  /\ UNCHANGED <<row, logged>>

ShowCandidates(e, x) ==
  /\ editor[e].state = "listing" /\ editor[e].thing = x
  /\ editor' = [editor EXCEPT ![e].state = "shown", ![e].refs = row[x].refs]
  /\ UNCHANGED <<row, logged>>

UpdateModelRoute(e, x) ==
  /\ HasETag(e, x)
  /\ \E refs \in CandidateSets : Rewrite(e, x, refs, 1)

DeleteModelRoute(e, x) == HasETag(e, x) /\ RemoveRow(e, x)

RouteHandlers ==
  \E x \in Routes :
    \/ CreateModelRoute(x)
    \/ \E e \in Editors : \/ ShowRoute(e, x) \/ ShowCandidates(e, x)
                          \/ UpdateModelRoute(e, x) \/ DeleteModelRoute(e, x)

-----------------------------------------------------------------------------
(* The request records, as usage/writer.go and retention.go keep them.     *)

\* The account may have moved to another upstream since the request.
SaveRecord ==
  /\ Cardinality(logged) < MaxLogged
  /\ \E a \in Present(Holders), u \in Present(Upstreams) : logged' = logged \cup {<<a, u>>}
  /\ UNCHANGED <<row, editor>>

ExpireRecord ==
  /\ \E entry \in logged : logged' = logged \ {entry}
  /\ UNCHANGED <<row, editor>>

\* An editor closes the page.
Abandon ==
  /\ \E e \in Editors : editor[e].state = "shown" /\ Leave(e)
  /\ UNCHANGED row

ResourcesNext ==
  \/ ProxyHandlers \/ UpstreamHandlers \/ AccountHandlers \/ RouteHandlers
  \/ SaveRecord \/ ExpireRecord \/ Abandon

ResourcesSpec == ResourcesInit /\ [][ResourcesNext]_resourcesVars

-----------------------------------------------------------------------------
ResourcesTypeOK ==
  /\ row \in [Things -> Row]
  /\ editor \in [Editors -> Editor]
  /\ logged \subseteq Holders \X Upstreams

(***************************************************************************)
(* Whatever the editors do at the same time, every stored reference        *)
(* resolves to a row of the right kind, an OAuth account is on a Google    *)
(* upstream, whose token endpoint would otherwise receive its credential,  *)
(* a route has a candidate, and every request record names an account and  *)
(* an upstream that exist (the joins of usage/reader.go).                  *)
(***************************************************************************)
ReferencesAreSound ==
  /\ \A x \in Things : row[x].refs \subseteq Present(Things)
  /\ \A u \in Present(Upstreams) : row[u].refs \subseteq Proxies
  /\ \A a \in Present(Holders) :
       /\ \E u \in Upstreams : row[a].refs \cap Upstreams = {u}
       /\ row[a].refs \subseteq Upstreams \cup Proxies
       /\ row[a].google => \A u \in row[a].refs \cap Upstreams : row[u].google
  /\ \A t \in Present(Routes) : row[t].refs # {} /\ row[t].refs \subseteq Holders
  /\ \A entry \in logged : {entry[1], entry[2]} \subseteq Present(Things)

(***************************************************************************)
(* An update replaces exactly what its editor was shown: the references,   *)
(* though the candidates of a route are read after its version, and the    *)
(* secrets of a proxy that it keeps, though they are read outside the      *)
(* transaction (control/proxy.go:101, route.go:76).                        *)
(***************************************************************************)
NoBlindOverwrite ==
  [][\A e \in Editors, x \in Things :
       (editor[e].thing = x /\ editor'[e] = AtRest /\ row'[x].version = row[x].version + 1)
       => /\ editor[e].refs = row[x].refs
          /\ editor[e].secret > 0 => row'[x].secret = row[x].secret]_resourcesVars
=============================================================================
