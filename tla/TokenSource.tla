---------------------------- MODULE TokenSource ----------------------------
(***************************************************************************)
(* TokenSource (packages/sheets/src/auth.ts) and the requests of           *)
(* SheetsClient (client.ts) that carry its token: callers ask for a token, *)
(* share one renewal, and send their request with what they get.           *)
(*                                                                         *)
(* Google counts the life of a token from the moment it issues it; the     *)
(* code counts it from the moment the answer arrives.  A token is the time *)
(* at which Google stops accepting it.                                     *)
(***************************************************************************)
EXTENDS Integers, FiniteSets

CONSTANTS
  Callers,      \* concurrent calls of SheetsClient.request
  Life,         \* expires_in
  RenewMargin,  \* RENEW_MARGIN_MS
  Latency,      \* environment: the longest time from issue to arrival
  Flight,       \* environment: the longest flight of a request
  NoCaller,     \* no renewal is pending
  MaxTime,      \* bound on the clock
  MaxAsked      \* bound on the renewals asked for

ASSUME TokenAssumption ==
  /\ Life \in Nat /\ RenewMargin \in Nat /\ Latency \in Nat /\ Flight \in Nat
  /\ Latency + Flight <= RenewMargin
  /\ Latency + Flight < Life
  /\ NoCaller \notin Callers
  /\ MaxTime \in Nat /\ MaxAsked \in Nat

VARIABLES
  now,        \* the clock
  cached,     \* a token is cached
  token,      \* the cached token
  expiresAt,  \* expiresAtMs
  pending,    \* the caller whose renewal the others join
  renewal,    \* per caller, its renewal: "none", "asked", "issued"
  issuedAt,   \* per caller, when Google issued
  at,         \* per caller: "idle", "waiting", "sent"
  on,         \* per caller, the renewal it waits for
  carried,    \* per caller, the token its request carries
  sentAt,     \* per caller, when its request was sent
  asked       \* how many renewals were asked for

callVars == << at, on, carried, sentAt >>
tokenVars == << now, cached, token, expiresAt, pending, renewal, issuedAt, callVars, asked >>

TokenInit ==
  /\ now = 0
  /\ cached = FALSE /\ token = 0 /\ expiresAt = 0
  /\ pending = NoCaller
  /\ renewal = [c \in Callers |-> "none"]
  /\ issuedAt = [c \in Callers |-> 0]
  /\ at = [c \in Callers |-> "idle"]
  /\ on = [c \in Callers |-> c]
  /\ carried = [c \in Callers |-> 0]
  /\ sentAt = [c \in Callers |-> 0]
  /\ asked = 0

(* Slip: the margin is left out. *)
FreshToTheEnd == cached /\ now < expiresAt

Fresh == cached /\ now < expiresAt - RenewMargin

UseCached(c) ==
  /\ at[c] = "idle"
  /\ Fresh
  /\ at' = [at EXCEPT ![c] = "sent"]
  /\ carried' = [carried EXCEPT ![c] = token]
  /\ sentAt' = [sentAt EXCEPT ![c] = now]
  /\ UNCHANGED << now, cached, token, expiresAt, pending, renewal, issuedAt, on, asked >>

Join(c) ==
  /\ at[c] = "idle"
  /\ ~Fresh /\ pending # NoCaller
  /\ at' = [at EXCEPT ![c] = "waiting"]
  /\ on' = [on EXCEPT ![c] = pending]
  /\ UNCHANGED << now, cached, token, expiresAt, pending, renewal, issuedAt, carried, sentAt,
                  asked >>

NobodyRenews == pending = NoCaller

Renew(c) ==
  /\ at[c] = "idle"
  /\ ~Fresh /\ NobodyRenews
  /\ asked < MaxAsked
  /\ asked' = asked + 1
  /\ pending' = c
  /\ renewal' = [renewal EXCEPT ![c] = "asked"]
  /\ at' = [at EXCEPT ![c] = "waiting"]
  /\ on' = [on EXCEPT ![c] = c]
  /\ UNCHANGED << now, cached, token, expiresAt, issuedAt, carried, sentAt >>

(* Google accepts the assertion; the answer is on its way. *)
Issue(c) ==
  /\ renewal[c] = "asked"
  /\ renewal' = [renewal EXCEPT ![c] = "issued"]
  /\ issuedAt' = [issuedAt EXCEPT ![c] = now]
  /\ UNCHANGED << now, cached, token, expiresAt, pending, callVars, asked >>

(* The callers that wait for the renewal of c. *)
Waiters(c) == {d \in Callers : at[d] = "waiting" /\ on[d] = c}

(* The answer arrives: it is cached, and every caller that waited sends    *)
(* its request with it.                                                    *)
Received(c) ==
  /\ renewal[c] = "issued"
  /\ cached' = TRUE
  /\ token' = issuedAt[c] + Life
  /\ expiresAt' = now + Life
  /\ pending' = NoCaller
  /\ renewal' = [renewal EXCEPT ![c] = "none"]
  /\ at' = [d \in Callers |-> IF d \in Waiters(c) THEN "sent" ELSE at[d]]
  /\ carried' = [d \in Callers |-> IF d \in Waiters(c) THEN issuedAt[c] + Life ELSE carried[d]]
  /\ sentAt' = [d \in Callers |-> IF d \in Waiters(c) THEN now ELSE sentAt[d]]
  /\ issuedAt' = [issuedAt EXCEPT ![c] = 0]
  /\ on' = [d \in Callers |-> IF d \in Waiters(c) THEN d ELSE on[d]]
  /\ UNCHANGED << now, asked >>

(* The renewal fails, or its answer is lost or carries no token: everyone  *)
(* who waited is rejected, and finally clears the promise.                 *)
Refused(c) ==
  /\ renewal[c] # "none"
  /\ renewal' = [renewal EXCEPT ![c] = "none"]
  /\ pending' = NoCaller
  /\ at' = [d \in Callers |-> IF d \in Waiters(c) THEN "idle" ELSE at[d]]
  /\ issuedAt' = [issuedAt EXCEPT ![c] = 0]
  /\ on' = [d \in Callers |-> IF d \in Waiters(c) THEN d ELSE on[d]]
  /\ UNCHANGED << now, cached, token, expiresAt, carried, sentAt, asked >>

Arrives(c) ==
  /\ at[c] = "sent"
  /\ at' = [at EXCEPT ![c] = "idle"]
  /\ carried' = [carried EXCEPT ![c] = 0]
  /\ sentAt' = [sentAt EXCEPT ![c] = 0]
  /\ UNCHANGED << now, cached, token, expiresAt, pending, renewal, issuedAt, on, asked >>

Tick ==
  /\ now < MaxTime
  /\ \A c \in Callers : renewal[c] = "issued" => now < issuedAt[c] + Latency
  /\ \A c \in Callers : at[c] = "sent" => now < sentAt[c] + Flight
  /\ now' = now + 1
  /\ UNCHANGED << cached, token, expiresAt, pending, renewal, issuedAt, callVars, asked >>

TokenNext ==
  \/ \E c \in Callers :
       UseCached(c) \/ Join(c) \/ Renew(c) \/ Issue(c) \/ Received(c) \/ Refused(c) \/ Arrives(c)
  \/ Tick

TokenSpec == TokenInit /\ [][TokenNext]_tokenVars

-----------------------------------------------------------------------------
(* "So a request never carries a token that expires mid-flight": as long   *)
(* as the answer to a renewal and the flight of a request together take no *)
(* longer than the margin, a request still on its way carries a token      *)
(* Google accepts, although the code starts the hour too late.             *)
TokenLivesThroughFlight == \A c \in Callers : at[c] = "sent" => now < carried[c]

(* "Concurrent callers share one in-flight renewal": at most one is out,   *)
(* and whoever waits, waits for one that is still out, so that no caller   *)
(* is left behind by a renewal that has failed.                            *)
RenewalsAreShared ==
  /\ \A c, d \in Callers : renewal[c] # "none" /\ renewal[d] # "none" => c = d
  /\ \A c \in Callers : at[c] = "waiting" => renewal[on[c]] # "none"
=============================================================================
