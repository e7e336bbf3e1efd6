----------------------------- MODULE ClientKeys ------------------------------
(***************************************************************************)
(* The keys of the gateway's clients: the administrator creates, changes   *)
(* and revokes them (internal/control/clientkey.go), and every request to  *)
(* the gateway authenticates with one (internal/clientauth/service.go),    *)
(* which reads the row, reads the clock and writes the time of last use,   *)
(* each by itself.  The wall clock may be set back.                        *)
(***************************************************************************)
EXTENDS Naturals

CONSTANTS Keys, NoKey, Clients,
          Throttle,               \* the minute between two writes of last use
          MaxClock, MaxRevision   \* bounds on the clock and on versions

ASSUME ClientKeysAssumption ==
  NoKey \notin Keys /\ {Throttle, MaxClock, MaxRevision} \subseteq Nat

VARIABLES
  key,      \* the rows of client_keys
  client,   \* the authentications in flight
  clock

clientKeysVars == <<key, client, clock>>

Never == 0   \* expires_at_ms and last_used_at_ms IS NULL

Key == [status : {"none", "active", "disabled", "revoked"},
        version : Nat, expires : Nat, used : Nat]

Client == [state : {"idle", "read", "timed"}, key : Keys \cup {NoKey},
           expires : Nat, now : Nat]

Away == [state |-> "idle", key |-> NoKey, expires |-> Never, now |-> 0]

ClientKeysInit ==
  /\ key = [k \in Keys |-> [status |-> "none", version |-> 0, expires |-> Never, used |-> Never]]
  /\ client = [c \in Clients |-> Away]
  /\ clock = 1

\* An expiry, where one is given, has to lie in the future.
Expiries == {Never} \cup {t \in 1..MaxClock : t > clock}

CreateClientKey(k) ==
  /\ key[k].status = "none"
  /\ \E expires \in Expiries :
       key' = [key EXCEPT ![k] =
         [status |-> "active", version |-> 1, expires |-> expires, used |-> Never]]
  /\ UNCHANGED <<client, clock>>

\* An If-Match that is not current changes nothing.  A revoked key stays so.
UpdateClientKey(k) ==
  /\ key[k].status \in {"active", "disabled"} /\ key[k].version < MaxRevision
  /\ \E status \in {"active", "disabled"}, expires \in Expiries :
       key' = [key EXCEPT ![k].status = status, ![k].expires = expires,
                          ![k].version = @ + 1]
  /\ UNCHANGED <<client, clock>>

RevokeClientKey(k) ==
  /\ key[k].status \in {"active", "disabled"} /\ key[k].version < MaxRevision
  /\ key' = [key EXCEPT ![k].status = "revoked", ![k].version = @ + 1]
  /\ UNCHANGED <<client, clock>>

\* The handlers that write; showing a key changes nothing.
KeyHandlers ==
  \E k \in Keys : CreateClientKey(k) \/ UpdateClientKey(k) \/ RevokeClientKey(k)

-----------------------------------------------------------------------------
\* Authenticate with the right secret; any other is refused and writes nothing.
ReadKey(c, k) ==
  /\ client[c].state = "idle" /\ key[k].status = "active"
  /\ client' = [client EXCEPT ![c] =
       [state |-> "read", key |-> k, expires |-> key[k].expires, now |-> 0]]
  /\ UNCHANGED <<key, clock>>

ReadClock(c) ==
  /\ client[c].state = "read"
  /\ client' = [client EXCEPT ![c] =
       IF client[c].expires # Never /\ client[c].expires <= clock
       THEN Away
       ELSE [@ EXCEPT !.state = "timed", !.now = clock]]
  /\ UNCHANGED <<key, clock>>

\* Mutant of IsStale: the UPDATE has no guard.
IsStaleAlways(used, now) == TRUE

\* WHERE last_used_at_ms IS NULL OR last_used_at_ms < now - a minute
IsStale(used, now) == used = Never \/ used + Throttle < now

WriteLastUse(c) ==
  /\ client[c].state = "timed"
  /\ key' = [key EXCEPT ![client[c].key].used =
       IF IsStale(@, client[c].now) THEN client[c].now ELSE @]
  /\ client' = [client EXCEPT ![c] = Away]
  /\ UNCHANGED clock

Authenticate ==
  \E c \in Clients : (\E k \in Keys : ReadKey(c, k)) \/ ReadClock(c) \/ WriteLastUse(c)

\* Time passes, or the clock is set.
SetClock ==
  /\ \E t \in 1..MaxClock : t # clock /\ clock' = t
  /\ UNCHANGED <<key, client>>

ClientKeysNext == KeyHandlers \/ Authenticate \/ SetClock

ClientKeysSpec == ClientKeysInit /\ [][ClientKeysNext]_clientKeysVars

-----------------------------------------------------------------------------
ClientKeysTypeOK ==
  key \in [Keys -> Key] /\ client \in [Clients -> Client] /\ clock \in Nat

(***************************************************************************)
(* A revoked key stays revoked, whatever page an administrator still has   *)
(* open, and the time of last use never goes back and is not written twice *)
(* within a minute, though two authentications read the clock in one order *)
(* and write in the other (clientauth/service.go:64) or the clock is set.  *)
(***************************************************************************)
KeyHistoryIsOneWay ==
  [][\A k \in Keys :
       /\ key[k].status = "revoked" => key'[k].status = "revoked"
       /\ key'[k].used # key[k].used =>
            key[k].used = Never \/ key'[k].used > key[k].used + Throttle]_clientKeysVars
=============================================================================
