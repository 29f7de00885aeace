---------------------------- MODULE SessionCache ----------------------------
(***************************************************************************)
(* The Betfair session token, cached in the accounts table. Every worker   *)
(* that talks to the exchange builds a Betfair::API (lib/betfair/api.rb),  *)
(* whose constructor logs in: it takes the token of the account's row when *)
(* Account.betfair_valid_ssoid (app/models/account.rb) finds it younger    *)
(* than TTL, and otherwise asks Betfair for a new one and stores it. The   *)
(* workers run on concurrent threads and share one account row.            *)
(*                                                                         *)
(* A session stands for the answer to one certlogin request: the instant   *)
(* Betfair gave it and whether it carried a token. JSON.parse of a refusal *)
(* yields nil for 'sessionToken', and the code stores that nil as it would *)
(* a token.                                                                *)
(***************************************************************************)
EXTENDS Naturals

CONSTANTS
    Callers,   \* threads that may be inside API.new
    TTL,       \* age in seconds at which a stored token is stale (1200)
    MaxCall,   \* longest time between the first and the last step of login
    MaxTime,   \* bound on the clock
    Nil        \* SQL NULL

ASSUME TimesAssumption == TTL \in Nat \ {0} /\ MaxCall \in Nat /\ MaxTime \in Nat
ASSUME NilAssumption == Nil \notin Nat

VARIABLES
    now,      \* Time.now.to_i
    account,  \* the account's row: time and ssoid
    call      \* each caller's login: pc, start, session, and the row it loaded

vars == <<now, account, call>>

Session == [ok : BOOLEAN, issued : Nat]
NoSession == [ok |-> FALSE, issued |-> 0]
Account == [time : Nat \cup {Nil}, ssoid : Session]
Busy == {"cached", "login", "answered", "loaded"}
Call == [pc : Busy \cup {"idle", "done"}, start : Nat, session : Session,
         stamp : Nat, dirty : BOOLEAN, at : Nat]

NoCall == [pc |-> "idle", start |-> 0, session |-> NoSession,
           stamp |-> 0, dirty |-> FALSE, at |-> 0]

(* The types of the variables; a call is never longer than MaxCall. *)
TypeOK ==
    /\ now \in Nat
    /\ account \in Account
    /\ call \in [Callers -> Call]
    /\ \A c \in Callers : call[c].pc \in Busy => now - call[c].start <= MaxCall

Init ==
    /\ now = 0
    /\ account = [time |-> Nil, ssoid |-> NoSession]
    /\ call = [c \in Callers |-> NoCall]

-----------------------------------------------------------------------------
(* Account *)

ValidSsoidOffByOne == account.time # Nil /\ now - account.time <= TTL

(* Account.betfair_valid_ssoid: the row has a time and is younger than TTL. *)
ValidSsoid == account.time # Nil /\ now - account.time < TTL

-----------------------------------------------------------------------------
(* API#login *)

Check(c) ==
    /\ call[c].pc = "idle"
    /\ call' = [call EXCEPT ![c].pc = IF ValidSsoid THEN "cached" ELSE "login",
                            ![c].start = now]
    /\ UNCHANGED <<now, account>>

(* A second query, after the one that judged the row's age. *)
ReadCached(c) ==
    /\ call[c].pc = "cached"
    /\ call' = [call EXCEPT ![c].pc = "done", ![c].session = account.ssoid, ![c].at = now]
    /\ UNCHANGED <<now, account>>

PostLogin(c, ok) ==
    /\ call[c].pc = "login"
    /\ call' = [call EXCEPT ![c].pc = "answered", ![c].session = [ok |-> ok, issued |-> now]]
    /\ UNCHANGED <<now, account>>

(* The row is loaded and given the time and the token; dirty says whether   *)
(* time is a changed attribute, the only ones save will write.             *)
LoadAccount(c) ==
    /\ call[c].pc = "answered"
    /\ call' = [call EXCEPT ![c].pc = "loaded", ![c].stamp = now,
                            ![c].dirty = (account.time # now)]
    /\ UNCHANGED <<now, account>>

SaveAccount(c) ==
    /\ call[c].pc = "loaded"
    /\ account' = [time |-> IF call[c].dirty THEN call[c].stamp ELSE account.time,
                   ssoid |-> call[c].session]
    /\ call' = [call EXCEPT ![c].pc = "done", ![c].at = now]
    /\ UNCHANGED now

(* The request fails, or its answer is not JSON: login raises. *)
RaiseInLogin(c) ==
    /\ call[c].pc = "login"
    /\ call' = [call EXCEPT ![c] = NoCall]
    /\ UNCHANGED <<now, account>>

(* The job that built the API object ends. *)
Release(c) ==
    /\ call[c].pc = "done"
    /\ call' = [call EXCEPT ![c] = NoCall]
    /\ UNCHANGED <<now, account>>

-----------------------------------------------------------------------------
(* The clock: no login lasts longer than MaxCall (socket timeouts).        *)
Tick ==
    /\ now < MaxTime
    /\ \A c \in Callers : call[c].pc \in Busy => now - call[c].start < MaxCall
    /\ now' = now + 1
    /\ UNCHANGED <<account, call>>

Next ==
    \/ Tick
    \/ \E c \in Callers :
        \/ Check(c) \/ ReadCached(c) \/ LoadAccount(c) \/ SaveAccount(c)
        \/ PostLogin(c, TRUE) \/ PostLogin(c, FALSE)
        \/ RaiseInLogin(c) \/ Release(c)

Spec == Init /\ [][Next]_vars

-----------------------------------------------------------------------------
(* Properties *)

(* The time stored beside a session never runs ahead of the moment Betfair *)
(* answered by more than one call, although concurrent logins may store    *)
(* their answers late, out of order, or one column each: whoever trusts    *)
(* account.time misjudges the token by at most MaxCall.                    *)
StampNearIssue ==
    account.time # Nil => account.time <= account.ssoid.issued + MaxCall

(* A login never returns an answer of Betfair that is older than TTL plus  *)
(* the length of the two calls involved (the one that stored it and the    *)
(* one that returns it). For a token, this is how long after its issue it  *)
(* may still be used; for the nil of a refused login, how long the refusal *)
(* is remembered and handed out in place of a token.                       *)
AgeBounded ==
    \A c \in Callers : call[c].pc = "done" =>
        call[c].at < call[c].session.issued + TTL + 2 * MaxCall

(* "Faz o login do utilizador e retorna o session token" (api.rb:249): a    *)
(* login answered from the row, which betfair_valid_ssoid found valid,     *)
(* returns a session token.                                                *)
CachedLoginReturnsToken ==
    \A c \in Callers :
        call[c].pc = "done" /\ call[c].session.issued < call[c].start => call[c].session.ok
=============================================================================
