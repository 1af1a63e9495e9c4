------------------------------ MODULE Sessions ------------------------------
(***************************************************************************)
(* Accounts and sessions: internal/auth, and the requests that sign in and *)
(* out (internal/web: handlers_auth.go, session.go, the middleware of      *)
(* routes.go, render/sse.go).                                              *)
(*                                                                         *)
(* The session manager is a library (scs).  It finds the session the       *)
(* cookie names before the handler runs; the handler's changes, and the    *)
(* cookie that goes with them, leave when the response starts.  Nothing of *)
(* a session is in the process's memory, so a crash is that every request  *)
(* under way is lost, each where it stood.                                 *)
(*                                                                         *)
(* No code removes an account, so an id is its row's position in users,    *)
(* and requireUser always finds the account a session names.  A password   *)
(* hash is the password it is of; the time zone is left out.               *)
(***************************************************************************)
EXTENDS Integers, Sequences, FiniteSets

CONSTANTS
  Tabs,          \* of one browser
  Typed,         \* what the e-mail box may hold
  Lower,         \* a text trimmed and in lower case
  Malformed,     \* texts that are no bare address
  Passwords,
  BadLength,     \* of those, the ones under MinPasswordLength or over MaxPasswordBytes
  MaxTokens, MaxUpsets,  \* bounds of the model: tokens issued, failures of the store
  None

ASSUME AddressAssumption == \A t \in Typed : /\ Lower[t] \in Typed
                                             /\ Lower[Lower[t]] = Lower[t]
ASSUME BoundAssumption == MaxUpsets \in Nat

VARIABLES
  users,     \* the users table
  sessions,  \* per token issued, in order: the account it is signed in to, or why it is not
  cookie,    \* the token in the browser's session cookie; 0 for no cookie
  req,       \* per tab, the request it waits for
  unheard,   \* history: the cookie's session was ended by a request whose answer never came
  upsets     \* failures of the store so far
vars == <<users, sessions, cookie, req, unheard, upsets>>

Account == [email : Typed, password : Passwords]

\* What has become of a token: issued but not stored, deleted, past its
\* lifetime; or stored, for the account with this id.
Unsaved == -1
Revoked == -2
Lapsed == -3
IsLive(t) == t # 0 /\ sessions[t] > 0
Holds(t, u) == [sessions EXCEPT ![t] = u]

Posts == {"login", "register", "logout"}
Kinds == {"page", "form"} \cup Posts

\* The cookie an answer carries: a token, 0 to clear it, or none.
Keep == -1

Request == [kind : Kinds, email : Typed \cup {None}, password : Passwords \cup {None},
            stage : {"loaded", "signing in", "renewed", "answered"},
            token : Nat,                 \* the session's it came with; 0 for none
            uid : Nat,                   \* the account signed in, or signing in
            new : Nat,                   \* the token issued for it
            cookie : Nat \cup {Keep},
            to : {"page", "form", None}] \* where the answer sends the tab
ASSUME NoneAssumption == None \notin Request /\ None \notin {"page", "form"}

Init == /\ users = <<>> /\ sessions = <<>>
        /\ cookie = 0
        /\ req = [r \in Tabs |-> None]
        /\ unheard = FALSE /\ upsets = 0

(***************************************************************************)
(* The accounts: internal/auth.                                            *)
(***************************************************************************)
\* Mutant: the address is stored as it was typed.
AddressAsTyped(typed) == typed

\* NormalizeEmail
Address(typed) == Lower[typed]

Acceptable(typed, password) == Address(typed) \notin Malformed /\ password \notin BadLength

\* UNIQUE (email), which is all that keeps two registrations apart.
Taken(email) == \E k \in DOMAIN users : users[k].email = email

\* Authenticate: the account the address and the password are of, if any.
Matches(typed, password) ==
  {k \in DOMAIN users : users[k].email = Address(typed) /\ users[k].password = password}

(***************************************************************************)
(* A request.                                                              *)
(***************************************************************************)
At(r, stage) == req[r] # None /\ req[r].stage = stage
Kind(r, kind) == req[r].kind = kind
Move(r, rec) == req' = [req EXCEPT ![r] = rec]

\* The response starts, with cookie c, and sends the tab to another page or none.
\* What was asked, and a session it does not end, are not needed any more.
Answer(r, c, to) ==
  Move(r, [req[r] EXCEPT !.stage = "answered", !.cookie = c, !.to = to, !.email = None,
             !.password = None, !.uid = 0, !.new = 0, !.token = IF c = Keep THEN 0 ELSE @])

\* The store refuses: the disk is full, the write connection is not had in time.
Upset == upsets < MaxUpsets /\ upsets' = upsets + 1

\* Tokens that requests already under way may still be issued.
Issuing == Cardinality({r \in Tabs : /\ req[r] # None /\ req[r].new = 0
                                     /\ req[r].kind \in {"login", "register"}})

\* Mutant: the store finds sessions past their expiry.
SentLapsed(kind, typed, password, token) ==
  [kind |-> kind, email |-> typed, password |-> password, stage |-> "loaded", token |-> token,
   uid |-> IF token = 0 THEN 0 ELSE sessions[token], new |-> 0, cookie |-> Keep, to |-> None]

\* A request is sent with the cookie and LoadAndSave finds its session: a token
\* with none live behind it is as good as none.  One step: what ends the session
\* a cookie names does so before the cookie changes.
Sent(kind, typed, password, token) ==
  LET found == IF IsLive(token) THEN token ELSE 0 IN
  [kind |-> kind, email |-> typed, password |-> password, stage |-> "loaded", token |-> found,
   uid |-> IF found = 0 THEN 0 ELSE sessions[found], new |-> 0, cookie |-> Keep, to |-> None]

Send(r) ==
  /\ req[r] = None
  /\ \/ \E kind \in {"page", "form", "logout"} : Move(r, Sent(kind, None, None, cookie))
     \/ /\ Len(sessions) + Issuing < MaxTokens
        /\ \E kind \in {"login", "register"}, typed \in Typed, password \in Passwords :
             Move(r, Sent(kind, typed, password, cookie))
  /\ UNCHANGED <<users, sessions, cookie, unheard, upsets>>

\* requireUser: a page for the account signed in; anyone else is sent to sign in.
GetPage(r) ==
  /\ At(r, "loaded") /\ Kind(r, "page")
  /\ Answer(r, Keep, IF req[r].uid = 0 THEN "form" ELSE None)
  /\ UNCHANGED <<users, sessions, cookie, unheard, upsets>>

\* Mutant: a browser that has a cookie counts as signed in.
GetFormByCookie(r) ==
  /\ At(r, "loaded") /\ Kind(r, "form")
  /\ Answer(r, Keep, IF cookie # 0 THEN "page" ELSE None)
  /\ UNCHANGED <<users, sessions, cookie, unheard, upsets>>

\* GetLogin and GetRegister: the form, or back to the timers.
GetForm(r) ==
  /\ At(r, "loaded") /\ Kind(r, "form")
  /\ Answer(r, Keep, IF req[r].uid # 0 THEN "page" ELSE None)
  /\ UNCHANGED <<users, sessions, cookie, unheard, upsets>>

\* Mutant: the old session goes before the password is checked.
PostLoginRenewed(r) ==
  /\ At(r, "loaded") /\ Kind(r, "login")
  /\ sessions' = IF req[r].token = 0 THEN sessions ELSE Holds(req[r].token, Revoked)
  /\ LET found == Matches(req[r].email, req[r].password) IN
     \/ found = {} /\ Answer(r, Keep, None)
     \/ \E k \in found : Move(r, [req[r] EXCEPT !.stage = "signing in", !.uid = k])
  /\ UNCHANGED <<users, cookie, unheard, upsets>>

\* One answer to an address nobody has and to a wrong password.
PostLogin(r) ==
  /\ At(r, "loaded") /\ Kind(r, "login")
  /\ LET found == Matches(req[r].email, req[r].password) IN
     \/ found = {} /\ Answer(r, Keep, None)
     \/ \E k \in found : Move(r, [req[r] EXCEPT !.stage = "signing in", !.uid = k])
  /\ UNCHANGED <<users, sessions, cookie, unheard, upsets>>

\* Mutant: an address that is taken is as good as the account it is taken by.
PostRegisterTaken(r) ==
  /\ At(r, "loaded") /\ Kind(r, "register")
  /\ LET email == Address(req[r].email) IN
     IF ~Acceptable(req[r].email, req[r].password) THEN Answer(r, Keep, None) /\ users' = users
     ELSE /\ users' = IF Taken(email) THEN users
                      ELSE Append(users, [email |-> email, password |-> req[r].password])
          /\ Move(r, [req[r] EXCEPT !.stage = "signing in",
                        !.uid = CHOOSE k \in DOMAIN users' : users'[k].email = email])
  /\ UNCHANGED <<sessions, cookie, unheard, upsets>>

\* Register, then signIn: the account is written before anyone is signed in.
PostRegister(r) ==
  /\ At(r, "loaded") /\ Kind(r, "register")
  /\ LET email == Address(req[r].email) IN
     IF ~Acceptable(req[r].email, req[r].password) \/ Taken(email)
     THEN Answer(r, Keep, None) /\ users' = users
     ELSE /\ users' = Append(users, [email |-> email, password |-> req[r].password])
          /\ Move(r, [req[r] EXCEPT !.stage = "signing in", !.uid = Len(users')])
  /\ UNCHANGED <<sessions, cookie, unheard, upsets>>

\* The request has ended the session the browser's cookie names.
Ends(r) == /\ req[r].token # 0 /\ req[r].token = cookie
           /\ (req[r].stage = "renewed" \/ req[r].cookie # Keep)

\* Mutant: the session keeps the token it was found under, if there is one.
RenewNothing(r) ==
  /\ At(r, "signing in")
  /\ sessions' = IF req[r].token = 0 THEN Append(sessions, Unsaved) ELSE sessions
  /\ Move(r, [req[r] EXCEPT !.stage = "renewed",
                            !.new = IF req[r].token = 0 THEN Len(sessions') ELSE req[r].token])
  /\ UNCHANGED <<users, cookie, unheard, upsets>>

\* RenewToken deletes the session found under the old token and issues a new
\* one, which is not stored yet; Put then names the account in it.
RenewToken(r) ==
  /\ At(r, "signing in")
  /\ LET t == req[r].token IN
     sessions' = Append(IF t = 0 THEN sessions ELSE Holds(t, Revoked), Unsaved)
  /\ Move(r, [req[r] EXCEPT !.stage = "renewed", !.new = Len(sessions')])
  /\ UNCHANGED <<users, cookie, unheard, upsets>>

\* Mutant: the flush that opens the stream steps over the session manager's
\* writer, and the headers leave before the session is stored and named.
StartWithoutCookie(r) ==
  /\ At(r, "renewed")
  /\ sessions' = Holds(req[r].new, req[r].uid)
  /\ Answer(r, Keep, "page")
  /\ UNCHANGED <<users, cookie, unheard, upsets>>

\* NewSSE starts the response: the session is stored and its cookie sent.
StartResponse(r) ==
  /\ At(r, "renewed")
  /\ sessions' = Holds(req[r].new, req[r].uid)
  /\ Answer(r, req[r].new, "page")
  /\ UNCHANGED <<users, cookie, unheard, upsets>>

\* PostLogout: the session is deleted and the cookie cleared.
PostLogout(r) ==
  /\ At(r, "loaded") /\ Kind(r, "logout")
  /\ sessions' = IF req[r].token = 0 THEN sessions ELSE Holds(req[r].token, Revoked)
  /\ Answer(r, 0, "form")
  /\ UNCHANGED <<users, cookie, unheard, upsets>>

\* Mutant: the cookie is cleared although the session could not be deleted.
FailsCleared(r) ==
  /\ Upset
  /\ At(r, "loaded") /\ Kind(r, "logout") /\ req[r].token # 0
  /\ Answer(r, 0, "form")
  /\ UNCHANGED <<users, sessions, cookie, unheard>>

\* A statement of the request fails.  It is answered with a message, an error,
\* or (a sign-out) as if it had gone well, and the session stays as it is: a
\* session that cannot be stored leaves its token Unsaved and the old one dead.
Fails(r) ==
  /\ Upset
  /\ \/ At(r, "loaded") /\ (Kind(r, "page") => req[r].uid # 0) /\ ~Kind(r, "form")
     \/ At(r, "signing in") /\ req[r].token # 0
     \/ At(r, "renewed")
  /\ unheard' = (unheard \/ Ends(r))
  /\ Answer(r, Keep, IF Kind(r, "logout") THEN "form" ELSE None)
  /\ UNCHANGED <<users, sessions, cookie>>

\* The answer reaches the browser, which goes where it is sent.
Arrive(r) ==
  /\ At(r, "answered")
  /\ cookie' = IF req[r].cookie = Keep THEN cookie ELSE req[r].cookie
  /\ unheard' = (unheard /\ req[r].cookie = Keep)
  /\ Move(r, IF req[r].to = None THEN None ELSE Sent(req[r].to, None, None, cookie'))
  /\ UNCHANGED <<users, sessions, upsets>>

\* The connection breaks, or the process dies.
Lose(r) ==
  /\ req[r] # None
  /\ unheard' = (unheard \/ Ends(r))
  /\ Move(r, None)
  /\ UNCHANGED <<users, sessions, cookie, upsets>>

\* A session outlives SessionLifetime.
Expire(t) ==
  /\ IsLive(t)
  /\ sessions' = Holds(t, Lapsed)
  /\ UNCHANGED <<users, cookie, req, unheard, upsets>>

Handle(r) == \/ GetPage(r) \/ GetForm(r) \/ PostLogin(r) \/ PostRegister(r) \/ PostLogout(r)
             \/ RenewToken(r) \/ StartResponse(r) \/ Fails(r)

Next == \/ \E r \in Tabs : Send(r) \/ Handle(r) \/ Arrive(r) \/ Lose(r)
        \/ \E t \in DOMAIN sessions : Expire(t)

\* A handler runs on, and an answer that is not lost arrives.
Spec == Init /\ [][Next]_vars /\ \A r \in Tabs : WF_vars(Handle(r) \/ Arrive(r))

-----------------------------------------------------------------------------
(***************************************************************************)
(* Properties.                                                             *)
(***************************************************************************)
TypeOK == /\ users \in Seq(Account)
          /\ sessions \in Seq(Nat \cup {Unsaved, Revoked, Lapsed})
          /\ cookie \in Nat
          /\ req \in [Tabs -> Request \cup {None}]
          /\ unheard \in BOOLEAN /\ upsets \in 0 .. MaxUpsets

\* However an address is typed, and however many register it at once, it has
\* one account (Repo.Create), which answers to the password it was registered
\* with and to no other; so does one whose registration failed to sign it in.
OneAccountPerAddress ==
  \A t \in Typed :
    LET mine == {k \in DOMAIN users : Lower[users[k].email] = Lower[t]} IN
    /\ \A j, k \in mine : j = k
    /\ \A k \in mine, p \in Passwords : k \in Matches(t, p) <=> p = users[k].password

\* A session comes into being only for the account whose address and password
\* the request gave, though it was checked some steps earlier (signIn).
SessionsAreByPassword ==
  [][\A t \in DOMAIN sessions' :
       sessions'[t] > 0 /\ (t \in DOMAIN sessions => sessions[t] # sessions'[t])
         => \E r \in Tabs : /\ At(r, "renewed")
                            /\ sessions'[t] \in DOMAIN users
                            /\ users[sessions'[t]] = [email |-> Lower[req[r].email],
                                                      password |-> req[r].password]]_vars

\* A session is one account's until it ends, and an ended one stays ended: no
\* sign-in promotes a token that was there before it (signIn), whatever other
\* tabs do with that token in between.
SessionsNeverChangeHands ==
  [][\A t \in DOMAIN sessions :
       /\ sessions[t] > 0 => sessions'[t] \in {sessions[t], Revoked, Lapsed}
       /\ sessions[t] \in {Revoked, Lapsed} => sessions'[t] \in {Revoked, Lapsed}]_vars

\* An answer takes the cookie away only when the session it named is over: a
\* sign-out that reached the browser revoked the session "at once" (session.go).
SignOutRevokes ==
  \A r \in Tabs : At(r, "answered") /\ req[r].cookie = 0 => ~IsLive(req[r].token)

\* A tab is sent to its timers by a sign-in only with the cookie of a session
\* that is stored, and that nobody has ended in the meantime (render.NewSSE).
SignInSticks ==
  \A r \in Tabs :
    At(r, "answered") /\ req[r].kind \in {"login", "register"} /\ req[r].to = "page"
      => LET t == req[r].cookie IN t > 0 /\ (IsLive(t) \/ sessions[t] = Lapsed)

\* The browser's cookie names a session that is live, or has run out, or was ended
\* by a request whose answer is on its way or was lost.
CookieWorks ==
  \/ cookie = 0 \/ IsLive(cookie) \/ sessions[cookie] = Lapsed \/ unheard
  \/ \E r \in Tabs : req[r] # None /\ Ends(r)

\* A tab comes to rest: requireUser and the sign-in screen never send it to and
\* fro for ever, with a cookie that has run out or a sign-out that failed.
ComesToRest == \A r \in Tabs : req[r] # None ~> req[r] = None
=============================================================================
