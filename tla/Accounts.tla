------------------------------ MODULE Accounts -----------------------------
(***************************************************************************)
(* AuthService: registration, login and refresh against Keycloak, which    *)
(* keeps the accounts.  A call to Keycloak is two steps, for it may change *)
(* the realm and the answer still be lost.                                 *)
(***************************************************************************)
EXTENDS Desk

CONSTANT Emails

AuthOps == {"register", "login", "refresh"}

VARIABLES
  realm,        \* addresses that have an account in the realm
  welcomed      \* addresses a register request was answered 201 for

identities == <<realm, welcomed>>
authVars   == <<desk, identities>>

AuthInit ==
  /\ DeskInit
  /\ realm = {}
  /\ welcomed = {}

Answer(s, status) == Finish(s, [type |-> "answer", status |-> status,
                                op |-> frame[s].op, about |-> frame[s].on])

-----------------------------------------------------------------------------
AuthCall(s) ==
  /\ UNCHANGED identities
  /\ \E e \in Emails, op \in AuthOps :
       Open(s, [Idle EXCEPT !.op = op, !.on = e, !.pc = IF op = "register" THEN "admin" ELSE "token"])

(* getServiceAccountToken: any failure is answered 503. *)
AdminToken(s) ==
  /\ AtStep(s, "admin") /\ frame[s].op = "register"
  /\ UNCHANGED identities
  /\ Next2(s, "create") \/ Answer(s, 503)

(* Keycloak handles the POST: the user name is unique in the realm. *)
KeycloakCreates(s) ==
  LET f == frame[s] IN
  /\ AtStep(s, "create") /\ f.op = "register"
  /\ realm' = realm \cup {f.on}
  /\ UNCHANGED welcomed
  /\ Proceed(s, [f EXCEPT !.pc = "created", !.seen = IF f.on \in realm THEN 409 ELSE 201])

(* It refuses the POST for another reason. *)
KeycloakRefuses(s) ==
  /\ AtStep(s, "create") /\ frame[s].op = "register"
  /\ UNCHANGED identities
  /\ Proceed(s, [frame[s] EXCEPT !.pc = "created", !.seen = 400])

(* What if an account that exists already counted as created? *)
StatusOfEither(seen) == IF seen \in {201, 409} THEN 201 ELSE 500

(* createKeycloakUser on the answer; other statuses are a 500. *)
StatusOf(seen) == IF seen \in {201, 409} THEN seen ELSE 500

CreateKeycloakUser(s) ==
  LET status == StatusOf(frame[s].seen) IN
  /\ AtStep(s, "created") /\ frame[s].op = "register"
  /\ welcomed' = IF status = 201 THEN welcomed \cup {frame[s].on} ELSE welcomed
  /\ UNCHANGED realm
  /\ Answer(s, status)

(* The POST, or the answer to it, is lost: fetch throws. *)
KeycloakUnreachable(s) ==
  /\ AtStep(s, "create") \/ AtStep(s, "created")
  /\ frame[s].op = "register"
  /\ UNCHANGED identities
  /\ Answer(s, 503)

(* login and refresh: tokens for an account there is, if the password or    *)
(* the refresh token is good.                                               *)
TokenRequest(s) ==
  /\ AtStep(s, "token") /\ frame[s].op \in AuthOps
  /\ UNCHANGED identities
  /\ \/ frame[s].on \in realm /\ Answer(s, 200)
     \/ Answer(s, 401)
     \/ Answer(s, 503)

AuthHandler(s) ==
  \/ AdminToken(s) \/ KeycloakCreates(s) \/ KeycloakRefuses(s) \/ CreateKeycloakUser(s)
  \/ KeycloakUnreachable(s) \/ TokenRequest(s)

AuthFail(s) == frame[s].op \in AuthOps /\ Fail(s) /\ UNCHANGED identities

AuthNext == \E s \in Slots : AuthCall(s) \/ AuthHandler(s) \/ AuthFail(s)

AuthSpec == AuthInit /\ [][AuthNext]_authVars

-----------------------------------------------------------------------------
AuthTypeOK == realm \subseteq Emails /\ welcomed \subseteq Emails

(* Of all the registrations of an address, retried or racing, at most one   *)
(* is answered 201, and an answer of 201 or 409 is true: the account is     *)
(* there, even if the answer to the request that made it was lost.          *)
OneWelcomePerAddress ==
  [][said' # Null /\ said'.type = "answer" =>
       /\ said'.status \in {201, 409} => said'.about \in realm
       /\ said'.status = 201 => said'.about \notin welcomed]_authVars
=============================================================================
