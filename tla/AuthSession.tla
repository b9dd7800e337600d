------------------------------ MODULE AuthSession ------------------------------
(***************************************************************************)
(* The browser's idea of who is signed in.  The provider's client (supabase*)
(* -js, outside the repository) keeps a session; AuthProvider mirrors it   *)
(* into React state, asks the API for the profile behind it, and ends it   *)
(* when any call is refused.  Calls are answered late and out of order,    *)
(* sessions change while they are under way, tokens are revoked, a sign-   *)
(* out may fail.                                                           *)
(***************************************************************************)
EXTENDS Integers

CONSTANTS
  Sessions, People,
  Owner,           \* [Sessions -> People]
  Developer,       \* whom an API with the local bypass takes everybody for
  None,
  MaxFaults        \* bound: answers lost and sign-outs failed

ASSUME SessionConstants ==
  /\ Owner \in [Sessions -> People] /\ None \notin Sessions
  /\ None \notin People /\ Developer \notin People \union {None}
  /\ MaxFaults \in Nat

VARIABLES
  supa,      \* the session the provider's client holds
  told,      \* its subscribers have heard of it
  awaited,   \* it has still to answer getSession
  session, user, ready, loading, resolving,   \* React state (loading: profileLoading)
  probe,     \* the GET /auth/me whose answer counts
  late,      \* tokens of earlier ones that are not answered yet
  call,      \* a call some page makes
  leaving,   \* sign-outs under way: of the "user", of the 401 "handler"
  valid,     \* tokens the API accepts
  bypass,    \* dev_auth_bypass_active at the API
  unused, faults,    \* sessions still to come, faults so far
  stuck              \* history: a sign-out failed

vars == <<supa, told, awaited, session, user, ready, loading, resolving, probe, late,
          call, leaving, valid, bypass, unused, faults, stuck>>
react == <<session, user, ready, loading, resolving>>
calls == <<probe, late, call>>
world == <<valid, bypass, unused>>

Token == Sessions \union {None}
Answers == {"waiting", "ok", "unauthorized", "failed"}
Call == [token : Token \union {"unsent"}, answer : Answers]
NewCall == [token |-> "unsent", answer |-> "waiting"]
NoCall == [token |-> None, answer |-> "none"]

Init ==
  /\ supa \in Token /\ told = FALSE /\ awaited = TRUE
  /\ session = None /\ user = None /\ ready = FALSE /\ loading = TRUE
  /\ resolving \in BOOLEAN
  /\ probe = NewCall /\ late = {} /\ call = NoCall
  /\ leaving = {} /\ valid = Sessions /\ bypass \in BOOLEAN
  /\ unused = Sessions \ {supa} /\ faults = 0 /\ stuck = FALSE

Accepts(t) == bypass \/ t \in valid
ProfileOf(t) ==
  IF bypass THEN Developer ELSE IF t = None THEN None ELSE Owner[t]

(* What useAuth() reports and ProtectedRoute acts on.                      *)
Status ==
  IF ~ready \/ resolving THEN "loading"
  ELSE IF user # None THEN "authenticated"
  ELSE IF session # None /\ loading THEN "loading" ELSE "anonymous"

----------------------------------------------------------------------------
(* A new session in React state runs the effects that depend on it: the    *)
(* profile is asked for again and the answer to the previous question no   *)
(* longer counts; the wait for the URL's credential is over.  A session    *)
(* with the token there already is may be another object, and then runs    *)
(* them too.                                                               *)
Mirror(s) ==
  /\ session' = s
  /\ \/ s = session /\ UNCHANGED <<probe, late, loading, resolving>>
     \/ /\ s # session \/ s # None
        /\ probe' = NewCall /\ loading' = TRUE
        /\ resolving' = (resolving /\ s = None)
        /\ late' = late \union
             (IF probe = NoCall THEN {}
              ELSE {IF probe.token = "unsent" THEN supa ELSE probe.token})

(* Answered before the client's first event or after any later one.        *)
GetSession ==
  /\ awaited /\ awaited' = FALSE
  /\ ready' = TRUE /\ Mirror(supa)
  /\ UNCHANGED <<supa, told, user, call, leaving, world, faults, stuck>>

(* OAuth, a one-time code, a refresh, a sign-in in another tab.            *)
NewSession(s) ==
  /\ told /\ s \in unused
  /\ supa' = s /\ unused' = unused \ {s} /\ told' = FALSE
  /\ UNCHANGED <<awaited, react, calls, leaving, valid, bypass, faults, stuck>>

(* Events come in order, the first of them of the session at the start.    *)
OnAuthStateChange ==
  /\ ~told /\ told' = TRUE /\ ready' = TRUE /\ Mirror(supa)
  /\ UNCHANGED <<supa, awaited, user, call, leaving, world, faults, stuck>>

(* Mutant: nothing ends the wait for a credential that leads nowhere.      *)
GraceNever == FALSE /\ UNCHANGED vars

Grace ==
  /\ resolving /\ resolving' = FALSE
  /\ UNCHANGED <<supa, told, awaited, session, user, ready, loading, calls, leaving, world,
                 faults, stuck>>

(* With the bypass the API looks at no token.                              *)
Revoke(s) ==
  /\ ~bypass /\ s \in valid /\ valid' = valid \ {s}
  /\ UNCHANGED <<supa, told, awaited, react, calls, leaving, bypass, unused, faults, stuck>>

----------------------------------------------------------------------------
(* apiFetch: the token is read when the call is sent.                      *)

Send(c) == c.token = "unsent"
Sent(c) == [c EXCEPT !.token = supa]
Served(c) ==
  {[c EXCEPT !.answer = a] :
     a \in {IF Accepts(c.token) THEN "ok" ELSE "unauthorized"}
           \union (IF faults < MaxFaults THEN {"failed"} ELSE {})}
MayServe(c) == c.answer = "waiting" /\ c.token # "unsent"
Arrived(c) == c.answer \in {"ok", "unauthorized", "failed"}
Counted(c) == faults' = faults + (IF c.answer = "failed" THEN 1 ELSE 0)

(* Mutant: registered once, when the provider is mounted.                  *)
CapturedAtMount == None
(* The registered handler knows the session of the effect that registered  *)
(* it, which is the one in React state.                                    *)
Captured == session
Ends(answer) == answer = "unauthorized" /\ Captured # None
OnUnauthorized(answer) ==
  leaving' = IF Ends(answer) THEN leaving \union {"handler"} ELSE leaving

SendProbe ==
  /\ Send(probe) /\ probe' = Sent(probe)
  /\ UNCHANGED <<supa, told, awaited, react, late, call, leaving, world, faults, stuck>>

ServeProbe ==
  /\ MayServe(probe) /\ \E c \in Served(probe) : probe' = c /\ Counted(c)
  /\ UNCHANGED <<supa, told, awaited, react, late, call, leaving, world, stuck>>

AnswerProbe ==
  /\ Arrived(probe) /\ probe' = NoCall /\ loading' = FALSE
  /\ user' = IF probe.answer = "ok" THEN ProfileOf(probe.token) ELSE None
  /\ OnUnauthorized(probe.answer)
  /\ UNCHANGED <<supa, told, awaited, session, ready, resolving, late, call, world, faults, stuck>>

(* Mutant: without the `active` flag of the effect.                        *)
AfterAny(t) == IF Accepts(t) THEN ProfileOf(t) ELSE None
(* An answer to an earlier question changes nothing, unless it is a 401.   *)
AfterLate(t) == user

AnswerLate(t) ==
  /\ t \in late /\ late' = late \ {t}
  /\ \E answer \in {"ok"} \union (IF Accepts(t) THEN {} ELSE {"unauthorized"}) :
       /\ OnUnauthorized(answer)
       /\ user' = IF Ends(answer) THEN None ELSE AfterLate(t)
  /\ UNCHANGED <<supa, told, awaited, session, ready, loading, resolving, probe, call, world,
                 faults, stuck>>

PageCalls ==
  /\ Status = "authenticated" /\ call = NoCall /\ call' = NewCall
  /\ UNCHANGED <<supa, told, awaited, react, probe, late, leaving, world, faults, stuck>>

SendCall ==
  /\ Send(call) /\ call' = Sent(call)
  /\ UNCHANGED <<supa, told, awaited, react, probe, late, leaving, world, faults, stuck>>

ServeCall ==
  /\ MayServe(call) /\ \E c \in Served(call) : call' = c /\ Counted(c)
  /\ UNCHANGED <<supa, told, awaited, react, probe, late, leaving, world, stuck>>

AnswerCall ==
  /\ Arrived(call) /\ call' = NoCall
  /\ OnUnauthorized(call.answer)
  /\ user' = IF Ends(call.answer) THEN None ELSE user
  /\ UNCHANGED <<supa, told, awaited, session, ready, loading, resolving, probe, late, world,
                 faults, stuck>>

----------------------------------------------------------------------------
(* Sign-out: supabase.auth.signOut, which may fail and keep the session.   *)

SignOut ==
  /\ Status = "authenticated" /\ leaving' = leaving \union {"user"}
  /\ UNCHANGED <<supa, told, awaited, react, calls, world, faults, stuck>>

(* The client tells its subscribers; after the user's own sign-out the     *)
(* profile is cleared too.                                                 *)
SignedOut(why) ==
  /\ why \in leaving /\ told /\ leaving' = leaving \ {why}
  /\ supa' = None /\ ready' = TRUE /\ Mirror(None)
  /\ user' = IF why = "user" THEN None ELSE user
  /\ UNCHANGED <<told, awaited, call, world, faults, stuck>>

SignOutFails(why) ==
  /\ why \in leaving /\ told /\ leaving' = leaving \ {why}
  /\ faults < MaxFaults /\ faults' = faults + 1 /\ stuck' = TRUE
  /\ IF why = "user" THEN user' = None /\ Mirror(None)
     ELSE UNCHANGED <<session, user, loading, resolving, probe, late>>
  /\ UNCHANGED <<supa, told, awaited, ready, call, world>>

Client == GetSession \/ OnAuthStateChange \/ Grace
Probing == SendProbe \/ ServeProbe \/ AnswerProbe
Calling == SendCall \/ ServeCall \/ AnswerCall

Next ==
  \/ GetSession \/ OnAuthStateChange \/ Grace
  \/ SendProbe \/ ServeProbe \/ AnswerProbe
  \/ PageCalls \/ SendCall \/ ServeCall \/ AnswerCall
  \/ SignOut
  \/ \E s \in Sessions : NewSession(s) \/ Revoke(s)
  \/ \E t \in Token : AnswerLate(t)
  \/ \E why \in {"user", "handler"} : SignedOut(why) \/ SignOutFails(why)

(* The event loop runs what is due, timers fire, and every call has an     *)
(* answer or its timeout; nobody has to sign in, sign out or open a page.  *)
Fairness ==
  /\ WF_vars(Client) /\ WF_vars(Probing) /\ WF_vars(Calling)
  /\ WF_vars(\E t \in Token : AnswerLate(t))
  /\ WF_vars(\E why \in {"user", "handler"} : SignedOut(why))

Spec == Init /\ [][Next]_vars /\ Fairness

----------------------------------------------------------------------------
(* Properties.                                                             *)

TypeOK ==
  /\ supa \in Token /\ session \in Token /\ told \in BOOLEAN
  /\ awaited \in BOOLEAN
  /\ user \in People \union {None, Developer}
  /\ ready \in BOOLEAN /\ loading \in BOOLEAN /\ resolving \in BOOLEAN
  /\ probe \in Call \union {NoCall} /\ call \in Call \union {NoCall}
  /\ late \subseteq Token /\ leaving \subseteq {"user", "handler"}
  /\ valid \subseteq Sessions /\ unused \subseteq Sessions
  /\ bypass \in BOOLEAN /\ faults \in 0..MaxFaults /\ stuck \in BOOLEAN

(* However sessions follow one another and answers overtake each other,    *)
(* the profile on the screen ends up being that of the session whose token *)
(* the calls carry, or none, unless a sign-out failed.                     *)
SettlesOnOwnProfile == <>[](user \in {None, ProfileOf(supa)} \/ stuck)

(* "Every one of those should end the session rather than leaving the UI   *)
(* showing stale data": once a call with the session's token is refused,   *)
(* the screens go or the session is another one, unless a sign-out failed. *)
RefusedIsSignedOut ==
  \A s \in Sessions :
    (call.answer = "unauthorized" /\ call.token = s /\ supa = s) ~>
      (Status # "authenticated" \/ supa # s \/ stuck)

(* "A malformed link cannot leave the app spinning forever", and neither   *)
(* can any order of the client's events, the answers and the timer.        *)
NeverStuckLoading == (Status = "loading") ~> (Status # "loading")

----------------------------------------------------------------------------
(* What the repository's comments say, and the code does not keep.         *)

(* AuthProvider.tsx: "End the session when the API says the caller is no   *)
(* longer authenticated."  A session is ended for a refusal only if it was *)
(* refused itself.                                                         *)
OnlyRefusedIsEnded ==
  [][\A s \in Sessions :
       session = s /\ s \in valid /\ leaving' # leaving => "user" \in leaving']_vars
============================================================================
