---------------------------- MODULE SessionsProofs ----------------------------
(***************************************************************************)
(* Theorems about Sessions, for any tabs, addresses, passwords and bounds. *)
(***************************************************************************)
EXTENDS Sessions, SequenceTheorems, TLAPS

(***************************************************************************)
(* The invariant.                                                          *)
(***************************************************************************)
Status == Nat \cup {Unsaved, Revoked, Lapsed}
Active == {r \in Tabs : req[r] # None}
SignsIn(q) == q.kind \in {"login", "register"}

\* Addresses are stored in one spelling, each once.
AccountsApart ==
  /\ \A k \in DOMAIN users : Lower[users[k].email] = users[k].email
  /\ \A j, k \in DOMAIN users : users[j].email = users[k].email => j = k

\* The account being signed in is the one whose address and password were given.
Vouched(q) == /\ q.uid \in DOMAIN users
              /\ users[q.uid] = [email |-> Lower[q.email], password |-> q.password]

\* The token a request has been issued and no one else has heard of; 0 if none.
Own(q) == IF q.stage = "renewed" THEN q.new
          ELSE IF q.stage = "answered" /\ q.cookie # Keep THEN q.cookie ELSE 0

Works(t) == sessions[t] > 0 \/ sessions[t] = Lapsed

\* Where a request stands: what it knows of the tokens it came with and was issued.
RequestStands(q) ==
  /\ q.token # 0 => q.token \in DOMAIN sessions /\ sessions[q.token] # Unsaved
  /\ q.stage = "loaded" => /\ q.cookie = Keep /\ q.new = 0
                           /\ SignsIn(q) => q.email \in Typed /\ q.password \in Passwords
  /\ q.stage \in {"signing in", "renewed"} => SignsIn(q) /\ q.cookie = Keep /\ Vouched(q)
  /\ q.stage = "signing in" => q.new = 0
  /\ q.stage = "renewed" => q.new \in DOMAIN sessions /\ sessions[q.new] = Unsaved
  /\ q.stage = "answered" =>
       /\ q.cookie = Keep => q.token = 0
       /\ q.cookie = 0 => ~IsLive(q.token)
       /\ q.cookie > 0 => q.cookie \in DOMAIN sessions /\ Works(q.cookie)
       /\ SignsIn(q) /\ q.to = "page" => q.cookie > 0

\* The cookie names a token that was stored once.
CookieKnown == cookie # 0 => cookie \in DOMAIN sessions /\ sessions[cookie] # Unsaved

\* A token not heard of is nobody else's: not in the cookie, not what another
\* request came with, not another's to set.
TokensApart ==
  \A r \in Active : Own(req[r]) # 0 =>
    /\ Own(req[r]) # cookie
    /\ \A r2 \in Active : /\ Own(req[r]) # req[r2].token
                          /\ r2 # r => Own(req[r]) # Own(req[r2])

IInv == /\ TypeOK
        /\ AccountsApart
        /\ \A r \in Active : RequestStands(req[r])
        /\ CookieKnown
        /\ TokensApart
        /\ CookieWorks

(***************************************************************************)
(* The table of sessions, and the requests.                                *)
(***************************************************************************)
\* Writing one session leaves the others.
LEMMA Written ==
  ASSUME sessions \in Seq(Status), NEW t \in DOMAIN sessions, NEW u \in Status
  PROVE  /\ Holds(t, u) \in Seq(Status) /\ DOMAIN Holds(t, u) = DOMAIN sessions
         /\ \A x \in DOMAIN sessions : Holds(t, u)[x] = IF x = t THEN u ELSE sessions[x]
<1>1. DOMAIN sessions = 1 .. Len(sessions)
  BY LenProperties
<1> QED
  BY <1>1, ExceptSeq, LenProperties DEF Holds

\* A token is issued after all others.
LEMMA TokenIssued ==
  ASSUME NEW s \in Seq(Status)
  PROVE  /\ Append(s, Unsaved) \in Seq(Status)
         /\ Len(Append(s, Unsaved)) = Len(s) + 1
         /\ DOMAIN Append(s, Unsaved) = DOMAIN s \cup {Len(s) + 1}
         /\ Len(s) + 1 \notin DOMAIN s
         /\ \A x \in DOMAIN s : Append(s, Unsaved)[x] = s[x]
         /\ Append(s, Unsaved)[Len(s) + 1] = Unsaved
<1>1. Unsaved \in Status
  BY DEF Status
<1>2. Append(s, Unsaved) \in Seq(Status)
  BY <1>1, AppendProperties
<1>3. DOMAIN s = 1 .. Len(s) /\ Len(s) \in Nat /\ DOMAIN Append(s, Unsaved) = 1 .. Len(Append(s, Unsaved))
  BY <1>2, LenProperties
<1> QED
  BY <1>1, <1>2, <1>3, AppendProperties

\* What an answer keeps of the request it answers.
Answers(r, c, to) ==
  /\ TypeOK /\ r \in Tabs /\ req[r] # None
  /\ c \in Nat \cup {Keep} /\ to \in {"page", "form", None} /\ Answer(r, c, to)

LEMMA Answered ==
  ASSUME NEW r, NEW c, NEW to, Answers(r, c, to)
  PROVE  \E a \in Request : /\ req' = [req EXCEPT ![r] = a]
                            /\ a.stage = "answered" /\ a.kind = req[r].kind
                            /\ a.cookie = c /\ a.to = to /\ a.new = 0
                            /\ a.token = IF c = Keep THEN 0 ELSE req[r].token
<1>1. req[r] \in Request /\ c \in Nat \cup {Keep} /\ to \in {"page", "form", None}
  BY DEF Answers, TypeOK
<1> DEFINE a == [req[r] EXCEPT !.stage = "answered", !.cookie = c, !.to = to, !.email = None,
                   !.password = None, !.uid = 0, !.new = 0, !.token = IF c = Keep THEN 0 ELSE @]
<1>2. a \in Request /\ a.stage = "answered" /\ a.kind = req[r].kind /\ a.cookie = c /\ a.to = to
      /\ a.new = 0 /\ a.token = IF c = Keep THEN 0 ELSE req[r].token
  BY <1>1 DEF Request
<1>3. req' = [req EXCEPT ![r] = a]
  BY DEF Answers, Answer, Move
<1> HIDE DEF a
<1> QED
  BY <1>2, <1>3

\* A request that is sent finds the session its cookie names, if it is live.
Sendable(kind, typed, password, token) ==
  /\ kind \in Kinds /\ typed \in Typed \cup {None} /\ password \in Passwords \cup {None}
  /\ token \in Nat /\ sessions \in Seq(Status)
  /\ token # 0 => token \in DOMAIN sessions

LEMMA SentFinds ==
  ASSUME NEW kind, NEW typed, NEW password, NEW token, Sendable(kind, typed, password, token),
         NEW q, q = Sent(kind, typed, password, token)
  PROVE  /\ q \in Request /\ q.kind = kind /\ q.email = typed /\ q.password = password
         /\ q.stage = "loaded" /\ q.new = 0 /\ q.cookie = Keep
         /\ (q.token # 0 => q.token = token /\ IsLive(token))
<1>0. /\ kind \in Kinds /\ typed \in Typed \cup {None} /\ password \in Passwords \cup {None}
      /\ token \in Nat /\ sessions \in Seq(Status) /\ (token # 0 => token \in DOMAIN sessions)
  BY DEF Sendable
<1> DEFINE found == IF IsLive(token) THEN token ELSE 0
           uid == IF found = 0 THEN 0 ELSE sessions[found]
<1>1. found \in Nat /\ (found # 0 => found = token /\ IsLive(token))
  BY <1>0
<1>2. uid \in Nat
  <2>1. CASE IsLive(token)
    <3>1. sessions[token] \in Status /\ sessions[token] > 0
      BY <1>0, <2>1, LenProperties, ElementOfSeq DEF IsLive
    <3> QED
      BY <2>1, <3>1 DEF Status, Unsaved, Revoked, Lapsed, IsLive
  <2> QED
    BY <2>1
<1>3. Sent(kind, typed, password, token) =
        [kind |-> kind, email |-> typed, password |-> password, stage |-> "loaded", token |-> found,
         uid |-> uid, new |-> 0, cookie |-> Keep, to |-> None]
  BY DEF Sent
<1> HIDE DEF found, uid
<1> QED
  BY <1>0, <1>1, <1>2, <1>3 DEF Request

(***************************************************************************)
(* What one request's step does to what the others rely on.                *)
(***************************************************************************)
\* What may become of a session.
Passes(a, b) == \/ b = a
                \/ a > 0 /\ b = Lapsed
                \/ a # Unsaved /\ b = Revoked
                \/ a = Unsaved /\ b > 0

\* Accounts stay, sessions pass, and a token that no one else has heard of at most runs out.
Spares(others) ==
  /\ \A k \in DOMAIN users : k \in DOMAIN users' /\ users'[k] = users[k]
  /\ \A t \in DOMAIN sessions : t \in DOMAIN sessions' /\ Passes(sessions[t], sessions'[t])
  /\ \A r2 \in others : LET t == Own(req[r2]) IN
       t # 0 => sessions'[t] = sessions[t] \/ (sessions[t] > 0 /\ sessions'[t] = Lapsed)

\* The tokens that r's request, become new, has heard of and been issued are nobody else's.
Apart(r, new) ==
  /\ \A r2 \in Active \ {r} : /\ Own(req[r2]) # 0 => Own(req[r2]) # new.token
                              /\ Own(new) # 0 => Own(new) \notin {req[r2].token, Own(req[r2])}
  /\ Own(new) # 0 => Own(new) # cookie' /\ Own(new) # new.token

\* A request stands where it stood while others take their steps.
LEMMA StandsStill ==
  ASSUME TypeOK, NEW others \in SUBSET Active, NEW r2 \in others, RequestStands(req[r2]), Spares(others),
         req'[r2] = req[r2]
  PROVE  RequestStands(req[r2])'
<1> DEFINE q == req[r2]
<1>1. q \in Request /\ sessions \in Seq(Status)
  BY DEF TypeOK, Active, Status
<1>2. q.cookie \in Nat \cup {Keep} /\ q.token \in Nat
  BY <1>1 DEF Request
<1>3. \A t \in DOMAIN sessions : sessions[t] \in Status /\ t \in Nat \ {0}
  BY <1>1, LenProperties, ElementOfSeq
<1>4. \A t \in DOMAIN sessions : t \in DOMAIN sessions' /\ Passes(sessions[t], sessions'[t])
  BY DEF Spares
<1>5. Vouched(q) => Vouched(q)'
  BY DEF Spares, Vouched
<1>a. \A t \in DOMAIN sessions : sessions[t] # Unsaved =>
        sessions'[t] # Unsaved /\ (sessions'[t] > 0 => sessions[t] > 0)
  BY <1>3, <1>4 DEF Status, Passes, Unsaved, Revoked, Lapsed
<1>b. q.token # 0 => q.token \in DOMAIN sessions /\ sessions[q.token] # Unsaved
  BY DEF RequestStands
<1>6. q.token # 0 => q.token \in DOMAIN sessions' /\ sessions'[q.token] # Unsaved
  BY <1>4, <1>a, <1>b
<1>7. q.stage = "renewed" => q.new \in DOMAIN sessions' /\ sessions'[q.new] = Unsaved
  <2>1. q.stage = "renewed" => q.new # 0 /\ q.new \in DOMAIN sessions /\ sessions[q.new] = Unsaved
    BY <1>3 DEF RequestStands
  <2> QED
    BY <1>4, <2>1 DEF Spares, Own, Unsaved, Lapsed
<1>8. q.stage = "answered" /\ q.cookie = 0 => ~IsLive(q.token)'
  BY <1>a, <1>b DEF RequestStands, IsLive
<1>9. q.stage = "answered" /\ q.cookie > 0 => q.cookie \in DOMAIN sessions' /\ Works(q.cookie)'
  <2>1. q.stage = "answered" /\ q.cookie > 0 => Own(q) = q.cookie /\ q.cookie # 0
    BY <1>2 DEF Own, Keep
  <2>2. q.stage = "answered" /\ q.cookie > 0 =>
          /\ q.cookie \in DOMAIN sessions /\ Works(q.cookie)
          /\ \/ sessions'[q.cookie] = sessions[q.cookie]
             \/ sessions[q.cookie] > 0 /\ sessions'[q.cookie] = Lapsed
    BY <2>1 DEF RequestStands, Spares
  <2> QED
    BY <1>4, <2>2 DEF Works
<1> QED
  BY <1>5, <1>6, <1>7, <1>8, <1>9 DEF RequestStands, SignsIn

\* One request's step keeps the invariant, if it spares the others.
LEMMA Step ==
  ASSUME IInv, NEW r \in Tabs, NEW new \in Request \cup {None}, req' = [req EXCEPT ![r] = new],
         Spares(Active \ {r}), sessions' \in Seq(Status), users' \in Seq(Account), AccountsApart',
         cookie' \in Nat, CookieKnown', unheard' \in BOOLEAN, upsets' \in 0 .. MaxUpsets,
         new # None => RequestStands(new)' /\ Apart(r, new),
         \A r2 \in Active \ {r} : Own(req[r2]) # 0 => Own(req[r2]) # cookie',
         CookieWorks'
  PROVE  IInv'
<1>1. req \in [Tabs -> Request \cup {None}]
  BY DEF IInv, TypeOK
<1>2. /\ \A r2 \in Tabs : req'[r2] = IF r2 = r THEN new ELSE req[r2]
      /\ req' \in [Tabs -> Request \cup {None}]
  BY <1>1
<1>3. TypeOK'
  BY <1>2 DEF TypeOK, Status
<1>4. \A r2 \in Active' : r2 \in Tabs /\ (r2 # r => r2 \in Active) /\ (r2 = r => new # None)
  BY <1>2 DEF Active
<1>5. ASSUME NEW r2 \in Active' PROVE RequestStands(req[r2])'
  <2>1. CASE r2 = r
    BY <1>2, <1>4, <1>5, <2>1 DEF RequestStands, SignsIn, Vouched, IsLive, Works
  <2>2. CASE r2 # r
    BY <1>2, <1>4, <1>5, <2>2, StandsStill DEF IInv
  <2> QED
    BY <2>1, <2>2
<1>6. TokensApart'
  <2>1. SUFFICES ASSUME NEW x \in Active', NEW y \in Active', Own(req'[x]) # 0
                 PROVE  /\ Own(req'[x]) # cookie' /\ Own(req'[x]) # req'[y].token
                        /\ y # x => Own(req'[x]) # Own(req'[y])
    BY DEF TokensApart, Own
  <2>2. CASE x = r
    BY <1>2, <1>4, <2>1, <2>2 DEF Apart
  <2>3. CASE x # r
    BY <1>2, <1>4, <2>1, <2>3 DEF Apart, IInv, TokensApart
  <2> QED
    BY <2>2, <2>3
<1> QED
  BY <1>3, <1>5, <1>6 DEF IInv
\* A step that changes no more than one request, and issues it nothing: it may take note
\* that the cookie's session has ended, and has to if it drops the answer that says so.
LEMMA QuietStep ==
  ASSUME IInv, NEW r \in Tabs, NEW new \in Request \cup {None}, req' = [req EXCEPT ![r] = new],
         UNCHANGED <<users, sessions, cookie>>,
         new # None => /\ RequestStands(new) /\ Own(new) = 0
                       /\ new.token # 0 /\ new.token # cookie => req[r] # None /\ new.token = req[r].token,
         unheard' \in BOOLEAN, upsets' \in 0 .. MaxUpsets,
         unheard => unheard',
         req[r] # None /\ Ends(r) => unheard'
  PROVE  IInv'
<1>1. req \in [Tabs -> Request \cup {None}] /\ r \in Tabs
  BY DEF IInv, TypeOK
<1>2. \A r2 \in Tabs : req'[r2] = IF r2 = r THEN new ELSE req[r2]
  BY <1>1
<1>3. Spares(Active \ {r})
  BY DEF Spares, Passes
<1>4. AccountsApart' /\ CookieKnown'
  BY DEF IInv, AccountsApart, CookieKnown
<1>5. new # None => RequestStands(new)'
  BY DEF RequestStands, Vouched, IsLive, Works
<1>6. new # None => Apart(r, new)
  BY DEF Apart, IInv, TokensApart, Active
<1>7. \A r2 \in Active \ {r} : Own(req[r2]) # 0 => Own(req[r2]) # cookie'
  BY DEF IInv, TokensApart
<1>8. CookieWorks'
  <2>1. \A r2 \in Tabs \ {r} : (req[r2] # None /\ Ends(r2)) => req'[r2] # None /\ Ends(r2)'
    BY <1>2 DEF Ends
  <2> QED
    BY <2>1 DEF IInv, CookieWorks, IsLive
<1>9. users' \in Seq(Account) /\ sessions' \in Seq(Status) /\ cookie' \in Nat
  BY DEF IInv, TypeOK, Status
<1> QED
  BY <1>3, <1>4, <1>5, <1>6, <1>7, <1>8, <1>9, Step

(***************************************************************************)
(* The steps.                                                              *)
(***************************************************************************)
\* A request under way has its types, and stands.
LEMMA UnderWay ==
  ASSUME IInv, NEW r \in Tabs, req[r] # None
  PROVE  req[r] \in Request /\ r \in Active /\ RequestStands(req[r])
BY DEF IInv, TypeOK, Active

\* A token that only its request has heard of is issued, and not stored or not ended.
LEMMA OwnStands ==
  ASSUME NEW r \in Tabs, req[r] \in Request, RequestStands(req[r]), Own(req[r]) # 0
  PROVE  /\ Own(req[r]) \in DOMAIN sessions
         /\ sessions[Own(req[r])] = Unsaved \/ Works(Own(req[r]))
<1>1. CASE req[r].stage = "renewed"
  BY <1>1 DEF Own, RequestStands
<1>2. CASE req[r].stage = "answered" /\ req[r].cookie # Keep
  <2>1. req[r].cookie \in Nat \cup {Keep}
    BY DEF Request
  <2>2. Own(req[r]) = req[r].cookie /\ req[r].cookie > 0
    BY <1>2, <2>1 DEF Own
  <2> QED
    BY <1>2, <2>2 DEF RequestStands
<1> QED
  BY <1>1, <1>2 DEF Own

LEMMA SendKeeps == ASSUME IInv, NEW r \in Tabs, Send(r) PROVE IInv'
<1>1. sessions \in Seq(Status) /\ cookie \in Nat /\ (cookie # 0 => cookie \in DOMAIN sessions)
  BY DEF IInv, TypeOK, Status, CookieKnown
<1>2. ASSUME NEW kind \in Kinds, NEW typed \in Typed \cup {None},
             NEW password \in Passwords \cup {None},
             kind \in {"login", "register"} => typed \in Typed /\ password \in Passwords,
             Move(r, Sent(kind, typed, password, cookie))
      PROVE  IInv'
  <2>a. PICK token \in Nat : token = cookie
    BY <1>1
  <2>b. PICK q : q = Sent(kind, typed, password, token)
    OBVIOUS
  <2>1. /\ q \in Request /\ q.kind = kind /\ q.email = typed /\ q.password = password
        /\ q.stage = "loaded" /\ q.new = 0 /\ q.cookie = Keep
        /\ (q.token # 0 => q.token = token /\ IsLive(token))
    <3>1. Sendable(kind, typed, password, token)
      BY <1>1, <2>a DEF Sendable
    <3> QED
      BY <2>b, <3>1, SentFinds
  <2>2. RequestStands(q) /\ Own(q) = 0
    BY <1>1, <1>2, <2>a, <2>1 DEF RequestStands, SignsIn, Own, IsLive, Unsaved
  <2>3. req' = [req EXCEPT ![r] = q]
    BY <1>2, <2>a, <2>b DEF Move, Sent, IsLive
  <2>4. UNCHANGED <<users, sessions, cookie, unheard, upsets>> /\ req[r] = None
    BY DEF Send
  <2> QED
    BY <2>a, <2>1, <2>2, <2>3, <2>4, QuietStep DEF IInv, TypeOK
<1>3. CASE \E kind \in {"page", "form", "logout"} : Move(r, Sent(kind, None, None, cookie))
  BY <1>2, <1>3 DEF Kinds, Posts
<1>4. CASE \E kind \in {"login", "register"}, typed \in Typed, password \in Passwords :
             Move(r, Sent(kind, typed, password, cookie))
  BY <1>2, <1>4 DEF Kinds, Posts
<1> QED
  BY <1>3, <1>4 DEF Send

\* An answer that leaves the cookie alone.
LEMMA KeepsAnswer ==
  ASSUME IInv, NEW r \in Tabs, req[r] # None, NEW to \in {"page", "form", None},
         Answer(r, Keep, to), UNCHANGED <<users, sessions, cookie>>,
         SignsIn(req[r]) => to # "page",
         unheard' = (unheard \/ Ends(r)), upsets' \in 0 .. MaxUpsets
  PROVE  IInv'
<1>1. PICK a \in Request : /\ req' = [req EXCEPT ![r] = a]
                           /\ a.stage = "answered" /\ a.kind = req[r].kind
                           /\ a.cookie = Keep /\ a.to = to /\ a.new = 0 /\ a.token = 0
  <2>1. Answers(r, Keep, to)
    BY DEF IInv, Answers
  <2> QED
    BY <2>1, Answered
<1>2. RequestStands(a) /\ Own(a) = 0
  BY <1>1 DEF RequestStands, SignsIn, Own, Keep
<1>3. unheard' \in BOOLEAN /\ (unheard => unheard') /\ (Ends(r) => unheard')
  BY DEF IInv, TypeOK, Ends
<1> QED
  BY <1>1, <1>2, <1>3, QuietStep

LEMMA GetPageKeeps == ASSUME IInv, NEW r \in Tabs, GetPage(r) PROVE IInv'
<1>1. req[r] # None /\ req[r].stage = "loaded" /\ req[r].kind = "page"
  BY DEF GetPage, At, Kind
<1>2. \E to \in {"page", "form", None} : Answer(r, Keep, to)
  BY DEF GetPage
<1>3. req[r].cookie = Keep
  BY <1>1, UnderWay DEF RequestStands
<1> QED
  BY <1>1, <1>2, <1>3, KeepsAnswer DEF GetPage, Ends, SignsIn, IInv, TypeOK

LEMMA GetFormKeeps == ASSUME IInv, NEW r \in Tabs, GetForm(r) PROVE IInv'
<1>1. req[r] # None /\ req[r].stage = "loaded" /\ req[r].kind = "form"
  BY DEF GetForm, At, Kind
<1>2. \E to \in {"page", "form", None} : Answer(r, Keep, to)
  BY DEF GetForm
<1>3. req[r].cookie = Keep
  BY <1>1, UnderWay DEF RequestStands
<1> QED
  BY <1>1, <1>2, <1>3, KeepsAnswer DEF GetForm, Ends, SignsIn, IInv, TypeOK

\* An account that is found, or has just been added, is signed in next.
LEMMA SigningIn ==
  ASSUME NEW q \in Request, q.stage = "loaded", NEW k \in Nat
  PROVE  LET n == [q EXCEPT !.stage = "signing in", !.uid = k] IN
         /\ n \in Request /\ n.stage = "signing in" /\ n.uid = k /\ n.email = q.email
         /\ n.password = q.password /\ n.token = q.token /\ n.new = q.new
         /\ n.kind = q.kind /\ n.cookie = q.cookie
BY DEF Request

LEMMA PostLoginKeeps == ASSUME IInv, NEW r \in Tabs, PostLogin(r) PROVE IInv'
<1>1. req[r] # None /\ req[r].stage = "loaded" /\ req[r].kind = "login"
  BY DEF PostLogin, At, Kind
<1>2. /\ req[r] \in Request /\ RequestStands(req[r]) /\ req[r].cookie = Keep /\ req[r].new = 0
      /\ ~Ends(r)
  BY <1>1, UnderWay DEF RequestStands, Ends
<1>3. /\ UNCHANGED <<users, sessions, cookie, unheard, upsets>>
      /\ unheard \in BOOLEAN /\ upsets \in 0 .. MaxUpsets
  BY DEF PostLogin, IInv, TypeOK
<1>4. CASE Answer(r, Keep, None)
  <2>1. unheard' = (unheard \/ Ends(r))
    BY <1>2, <1>3
  <2> QED
    BY <1>1, <1>3, <1>4, <2>1, NoneAssumption, KeepsAnswer
<1>5. ASSUME NEW k \in Matches(req[r].email, req[r].password),
             Move(r, [req[r] EXCEPT !.stage = "signing in", !.uid = k])
      PROVE  IInv'
  <2> DEFINE n == [req[r] EXCEPT !.stage = "signing in", !.uid = k]
  <2>1. /\ k \in DOMAIN users /\ k \in Nat /\ users[k] \in Account
        /\ users[k].email = Lower[req[r].email] /\ users[k].password = req[r].password
    <3>1. users \in Seq(Account)
      BY DEF IInv, TypeOK
    <3> QED
      BY <1>5, <3>1, LenProperties, ElementOfSeq DEF Matches, Address
  <2>2. /\ n \in Request /\ n.stage = "signing in" /\ n.uid = k /\ n.email = req[r].email
        /\ n.password = req[r].password /\ n.token = req[r].token /\ n.new = 0
        /\ n.kind = "login" /\ n.cookie = Keep
    BY <1>1, <1>2, <2>1, SigningIn
  <2>3. req' = [req EXCEPT ![r] = n]
    BY <1>5 DEF Move
  <2> HIDE DEF n
  <2>4. Vouched(n)
    BY <2>1, <2>2 DEF Vouched, Account
  <2>5. RequestStands(n) /\ Own(n) = 0
    BY <1>2, <2>2, <2>4 DEF RequestStands, SignsIn, Own
  <2> QED
    BY <1>1, <1>2, <1>3, <2>2, <2>3, <2>5, QuietStep
<1> QED
  BY <1>4, <1>5 DEF PostLogin

LEMMA FailsKeeps == ASSUME IInv, NEW r \in Tabs, Fails(r) PROVE IInv'
<1>1. req[r] # None /\ req[r].stage \in {"loaded", "signing in", "renewed"}
  BY DEF Fails, At
<1>2. PICK to \in {"form", None} : Answer(r, Keep, to)
  BY DEF Fails
<1>3. upsets' \in 0 .. MaxUpsets
  <2>1. upsets \in 0 .. MaxUpsets /\ Upset
    BY DEF Fails, IInv, TypeOK
  <2> QED
    BY <2>1, BoundAssumption DEF Upset
<1>4. UNCHANGED <<users, sessions, cookie>> /\ unheard' = (unheard \/ Ends(r)) /\ to # "page"
  BY <1>2, NoneAssumption DEF Fails
<1> QED
  BY <1>1, <1>2, <1>3, <1>4, KeepsAnswer

LEMMA LoseKeeps == ASSUME IInv, NEW r \in Tabs, Lose(r) PROVE IInv'
<1>1. req' = [req EXCEPT ![r] = None] /\ unheard' = (unheard \/ Ends(r)) /\ unheard \in BOOLEAN
      /\ UNCHANGED <<users, sessions, cookie, upsets>> /\ upsets \in 0 .. MaxUpsets
  BY DEF Lose, Move, IInv, TypeOK
<1>2. unheard' \in BOOLEAN
  BY <1>1 DEF Ends
<1> QED
  BY <1>1, <1>2, QuietStep

\* A new account has an address that no other has.
LEMMA PostRegisterKeeps == ASSUME IInv, NEW r \in Tabs, PostRegister(r) PROVE IInv'
<1>1. req[r] # None /\ req[r].stage = "loaded" /\ req[r].kind = "register"
  BY DEF PostRegister, At, Kind
<1>2. /\ req[r] \in Request /\ RequestStands(req[r]) /\ req[r].cookie = Keep /\ req[r].new = 0
      /\ ~Ends(r) /\ r \in Active
  BY <1>1, UnderWay DEF RequestStands, Ends
<1>3. /\ UNCHANGED <<sessions, cookie, unheard, upsets>>
      /\ unheard \in BOOLEAN /\ upsets \in 0 .. MaxUpsets
      /\ users \in Seq(Account) /\ sessions \in Seq(Status) /\ cookie \in Nat
  BY DEF PostRegister, IInv, TypeOK, Status
<1>4. CASE Answer(r, Keep, None) /\ users' = users
  <2>1. unheard' = (unheard \/ Ends(r))
    BY <1>2, <1>3
  <2> QED
    BY <1>1, <1>3, <1>4, <2>1, NoneAssumption, KeepsAnswer
<1> DEFINE email == Lower[req[r].email]
           row == [email |-> email, password |-> req[r].password]
<1>5. CASE /\ ~Taken(email) /\ users' = Append(users, row)
           /\ Move(r, [req[r] EXCEPT !.stage = "signing in", !.uid = Len(users')])
  <2>1. row \in Account /\ Lower[row.email] = row.email
    BY <1>1, <1>2, AddressAssumption DEF RequestStands, SignsIn, Account
  <2>2. row.email = email /\ row.password = req[r].password
    OBVIOUS
  <2> HIDE DEF row, email
  <2>3. /\ users' \in Seq(Account) /\ Len(users') = Len(users) + 1 /\ Len(users) \in Nat
        /\ DOMAIN users = 1 .. Len(users) /\ DOMAIN users' = 1 .. Len(users')
        /\ \A k \in 1 .. Len(users) : users'[k] = users[k]
        /\ users'[Len(users')] = row
    BY <1>3, <1>5, <2>1, AppendProperties, LenProperties
  <2>4. AccountsApart'
    <3>1. \A k \in DOMAIN users : users[k].email # row.email
      BY <1>5, <2>2 DEF Taken
    <3>2. \A k \in DOMAIN users' : k \in DOMAIN users \/ k = Len(users')
      BY <2>3
    <3> QED
      BY <2>1, <2>3, <3>1, <3>2 DEF IInv, AccountsApart
  <2>5. PICK k \in Nat : k = Len(users')
    BY <2>3
  <2>6. PICK n : n = [req[r] EXCEPT !.stage = "signing in", !.uid = k]
    OBVIOUS
  <2>7. req' = [req EXCEPT ![r] = n]
    BY <1>5, <2>5, <2>6 DEF Move
  <2>8. /\ n \in Request /\ n.stage = "signing in" /\ n.uid = k /\ n.email = req[r].email
        /\ n.password = req[r].password /\ n.token = req[r].token /\ n.new = 0
        /\ n.kind = "register" /\ n.cookie = Keep
    BY <1>1, <1>2, <2>6, SigningIn
  <2>9. Vouched(n)'
    <3>1. k \in DOMAIN users' /\ users'[k] = row
      BY <2>3, <2>5
    <3>2. row = [email |-> Lower[n.email], password |-> n.password]
      BY <2>8 DEF row, email
    <3> QED
      BY <2>8, <3>1, <3>2 DEF Vouched
  <2>10. RequestStands(n)' /\ Own(n) = 0
    BY <1>2, <1>3, <2>8, <2>9 DEF RequestStands, SignsIn, Own
  <2>11. Spares(Active \ {r})
    BY <1>3, <2>3 DEF Spares, Passes
  <2>12. Apart(r, n)
    BY <1>2, <2>8, <2>10 DEF Apart, IInv, TokensApart
  <2>13. CookieWorks'
    <3>1. \A r2 \in Tabs : req'[r2] = IF r2 = r THEN n ELSE req[r2]
      BY <2>7 DEF IInv, TypeOK
    <3>2. \A r2 \in Tabs : (req[r2] # None /\ Ends(r2)) => req'[r2] # None /\ Ends(r2)'
      BY <1>2, <1>3, <3>1 DEF Ends
    <3> QED
      BY <1>3, <3>2 DEF IInv, CookieWorks, IsLive
  <2>14. CookieKnown'
    BY <1>3 DEF IInv, CookieKnown
  <2>15. \A r2 \in Active \ {r} : Own(req[r2]) # 0 => Own(req[r2]) # cookie'
    BY <1>3 DEF IInv, TokensApart
  <2> QED
    BY <1>3, <2>3, <2>4, <2>7, <2>8, <2>10, <2>11, <2>12, <2>13, <2>14, <2>15, Step
<1> QED
  BY <1>4, <1>5 DEF PostRegister, Address

\* A session runs out.
LEMMA ExpireKeeps == ASSUME IInv, NEW t \in DOMAIN sessions, Expire(t) PROVE IInv'
<1>1. sessions \in Seq(Status) /\ Lapsed \in Status
  BY DEF IInv, TypeOK, Status
<1>2. /\ sessions' \in Seq(Status) /\ DOMAIN sessions' = DOMAIN sessions /\ sessions[t] > 0
      /\ \A x \in DOMAIN sessions : sessions'[x] = IF x = t THEN Lapsed ELSE sessions[x]
  BY <1>1, Written DEF Expire, IsLive
<1>3. UNCHANGED <<users, cookie, req, unheard, upsets>>
  BY DEF Expire
<1>a. \A x \in DOMAIN sessions : x # 0
  BY <1>1, LenProperties
<1>4. Spares(Active)
  <2>1. \A r \in Active : Own(req[r]) # 0 => Own(req[r]) \in DOMAIN sessions
    BY UnderWay, OwnStands DEF Active
  <2> QED
    BY <1>2, <1>3, <2>1 DEF Spares, Passes
<1>5. TypeOK'
  BY <1>2, <1>3 DEF IInv, TypeOK, Status
<1>6. AccountsApart' /\ TokensApart'
  BY <1>3 DEF IInv, AccountsApart, TokensApart, Active, Own
<1>7. CookieKnown'
  BY <1>2, <1>3 DEF IInv, CookieKnown, Lapsed, Unsaved
<1>8. \A r \in Active' : RequestStands(req[r])'
  BY <1>3, <1>4, StandsStill DEF IInv, Active
<1>9. CookieWorks'
  <2>1. (\E r \in Tabs : req[r] # None /\ Ends(r)) => (\E r \in Tabs : req[r] # None /\ Ends(r))'
    BY <1>3 DEF Ends
  <2>2. cookie = 0 \/ cookie \in DOMAIN sessions
    BY DEF IInv, CookieKnown
  <2>3. (cookie = 0 \/ IsLive(cookie) \/ sessions[cookie] = Lapsed)
          => (cookie = 0 \/ IsLive(cookie) \/ sessions[cookie] = Lapsed)'
    BY <1>2, <1>3, <2>2 DEF IsLive
  <2> QED
    BY <1>3, <2>1, <2>3 DEF IInv, CookieWorks
<1> QED
  BY <1>5, <1>6, <1>7, <1>8, <1>9 DEF IInv

\* The old session ends, and a token is issued that nobody knows yet.
LEMMA RenewTokenSessions ==
  ASSUME IInv, NEW r \in Tabs, RenewToken(r), NEW t, t = req[r].token
  PROVE  /\ t \in Nat /\ (t # 0 => t \in DOMAIN sessions /\ sessions[t] # Unsaved)
         /\ sessions \in Seq(Status) /\ sessions' \in Seq(Status)
         /\ \E new \in Nat :
              /\ new = Len(sessions') /\ DOMAIN sessions' = DOMAIN sessions \cup {new}
              /\ new \notin DOMAIN sessions /\ new # 0 /\ sessions'[new] = Unsaved
              /\ \A x \in DOMAIN sessions : sessions'[x] = IF x = t THEN Revoked ELSE sessions[x]
<1>1. req[r] # None
  BY DEF RenewToken, At
<1>2. t \in Nat /\ (t # 0 => t \in DOMAIN sessions /\ sessions[t] # Unsaved)
  BY <1>1, UnderWay DEF RequestStands, Request
<1>3. sessions \in Seq(Status)
  BY DEF IInv, TypeOK, Status
<1> DEFINE s == IF t = 0 THEN sessions ELSE Holds(t, Revoked)
<1>4. /\ s \in Seq(Status) /\ DOMAIN s = DOMAIN sessions /\ 0 \notin DOMAIN sessions
      /\ \A x \in DOMAIN sessions : s[x] = IF x = t THEN Revoked ELSE sessions[x]
  <2>1. 0 \notin DOMAIN sessions
    BY <1>3, LenProperties
  <2>2. CASE t = 0
    BY <1>3, <2>1, <2>2
  <2>3. CASE t # 0
    <3>1. Revoked \in Status
      BY DEF Status
    <3> QED
      BY <1>2, <1>3, <2>1, <2>3, <3>1, Written
  <2> QED
    BY <2>2, <2>3
<1>5. sessions' = Append(s, Unsaved)
  BY DEF RenewToken
<1> HIDE DEF s
<1>6. Len(sessions') = Len(s) + 1 /\ Len(s) \in Nat
  BY <1>4, <1>5, TokenIssued, LenProperties
<1> QED
  BY <1>2, <1>3, <1>4, <1>5, <1>6, TokenIssued

LEMMA RenewTokenKeeps == ASSUME IInv, NEW r \in Tabs, RenewToken(r) PROVE IInv'
<1>1. req[r] # None /\ req[r].stage = "signing in"
  BY DEF RenewToken, At
<1>2. PICK t : t = req[r].token
  OBVIOUS
<1>3. /\ req[r] \in Request /\ RequestStands(req[r]) /\ r \in Active
      /\ req[r].cookie = Keep /\ Own(req[r]) = 0 /\ ~Ends(r)
      /\ t \in Nat /\ (t # 0 => t \in DOMAIN sessions /\ sessions[t] # Unsaved)
  BY <1>1, <1>2, UnderWay DEF RequestStands, Ends, Own, Request
<1>4. /\ UNCHANGED <<users, cookie, unheard, upsets>> /\ sessions \in Seq(Status)
      /\ users \in Seq(Account) /\ cookie \in Nat /\ unheard \in BOOLEAN /\ upsets \in 0 .. MaxUpsets
  BY DEF RenewToken, IInv, TypeOK, Status
<1>5. 0 \notin DOMAIN sessions
  BY <1>4, LenProperties
<1>6. PICK new \in Nat :
        /\ new = Len(sessions') /\ DOMAIN sessions' = DOMAIN sessions \cup {new}
        /\ new \notin DOMAIN sessions /\ new # 0 /\ sessions'[new] = Unsaved
        /\ \A x \in DOMAIN sessions : sessions'[x] = IF x = t THEN Revoked ELSE sessions[x]
  BY <1>2, RenewTokenSessions
<1>7. sessions' \in Seq(Status)
  BY <1>2, RenewTokenSessions
<1>8. /\ DOMAIN sessions' = DOMAIN sessions \cup {new}
      /\ new \notin DOMAIN sessions /\ new # 0 /\ sessions'[new] = Unsaved
      /\ \A x \in DOMAIN sessions : sessions'[x] = IF x = t THEN Revoked ELSE sessions[x]
  BY <1>6
<1>9. PICK n : n = [req[r] EXCEPT !.stage = "renewed", !.new = new]
  OBVIOUS
<1>10. /\ n \in Request /\ n.stage = "renewed" /\ n.new = new /\ n.token = t
       /\ n.kind = req[r].kind /\ n.cookie = Keep /\ n.uid = req[r].uid
       /\ n.email = req[r].email /\ n.password = req[r].password
  BY <1>2, <1>3, <1>9 DEF Request
<1>11. req' = [req EXCEPT ![r] = n]
  BY <1>6, <1>9 DEF RenewToken, Move
<1>12. Own(n) = new /\ new # cookie /\ new # t
  BY <1>3, <1>8, <1>10 DEF Own, IInv, CookieKnown
<1>13. \A r2 \in Active : /\ new # req[r2].token /\ new # Own(req[r2])
                          /\ Own(req[r2]) # 0 => /\ Own(req[r2]) \in DOMAIN sessions
                                                 /\ Own(req[r2]) # t /\ Own(req[r2]) # cookie
  <2>1. ASSUME NEW r2 \in Active
        PROVE  /\ req[r2] \in Request /\ RequestStands(req[r2]) /\ r2 \in Tabs
               /\ Own(req[r2]) # 0 => Own(req[r2]) # t /\ Own(req[r2]) # cookie
    BY <1>2, <1>3, UnderWay DEF Active, IInv, TokensApart
  <2>2. ASSUME NEW r2 \in Active
        PROVE  /\ req[r2].token # 0 => req[r2].token \in DOMAIN sessions
               /\ Own(req[r2]) # 0 => Own(req[r2]) \in DOMAIN sessions
    BY <2>1, OwnStands DEF RequestStands
  <2> QED
    BY <1>8, <2>1, <2>2
<1>14. RequestStands(n)'
  <2>1. t # 0 => t \in DOMAIN sessions' /\ sessions'[t] # Unsaved
    BY <1>3, <1>8 DEF Revoked, Unsaved
  <2>2. Vouched(n)' /\ SignsIn(n)
    BY <1>1, <1>3, <1>4, <1>10 DEF RequestStands, Vouched, SignsIn
  <2> QED
    BY <1>8, <1>10, <2>1, <2>2 DEF RequestStands, SignsIn
<1>15. Spares(Active \ {r})
  <2>1. \A x \in DOMAIN sessions : x \in DOMAIN sessions' /\ Passes(sessions[x], sessions'[x])
    BY <1>3, <1>8, <1>5 DEF Passes
  <2> QED
    BY <1>4, <1>8, <1>13, <2>1 DEF Spares
<1>16. Apart(r, n)
  BY <1>4, <1>10, <1>12, <1>13 DEF Apart
<1>17. CookieKnown'
  BY <1>4, <1>8 DEF IInv, CookieKnown, Revoked, Unsaved
<1>18. CookieWorks'
  <2>1. \A r2 \in Tabs : req'[r2] = IF r2 = r THEN n ELSE req[r2]
    BY <1>11 DEF IInv, TypeOK
  <2>2. CASE cookie # 0 /\ t = cookie
    <3>1. req'[r] # None /\ Ends(r)'
      BY <1>4, <1>10, <2>1, <2>2, NoneAssumption DEF Ends
    <3> QED
      BY <3>1 DEF CookieWorks
  <2>3. CASE cookie # 0 /\ t # cookie
    <3>1. sessions'[cookie] = sessions[cookie]
      BY <1>8, <2>3 DEF IInv, CookieKnown
    <3>2. \A r2 \in Tabs : (req[r2] # None /\ Ends(r2)) => req'[r2] # None /\ Ends(r2)'
      BY <1>3, <1>4, <2>1 DEF Ends
    <3> QED
      BY <1>4, <3>1, <3>2 DEF IInv, CookieWorks, IsLive
  <2> QED
    BY <1>4, <2>2, <2>3 DEF CookieWorks
<1>19. AccountsApart'
  BY <1>4 DEF IInv, AccountsApart
<1> QED
  BY <1>4, <1>7, <1>10, <1>11, <1>13, <1>14, <1>15, <1>16, <1>17, <1>18, <1>19, Step

\* The session is stored, for the account that was vouched for.
LEMMA StartResponseSessions ==
  ASSUME IInv, NEW r \in Tabs, StartResponse(r), NEW new, new = req[r].new
  PROVE  /\ At(r, "renewed") /\ Vouched(req[r]) /\ new \in Nat \ {0}
         /\ new \in DOMAIN sessions /\ sessions[new] = Unsaved
         /\ sessions \in Seq(Status) /\ sessions' \in Seq(Status) /\ DOMAIN sessions' = DOMAIN sessions
         /\ sessions'[new] = req[r].uid /\ sessions'[new] > 0
         /\ \A x \in DOMAIN sessions \ {new} : sessions'[x] = sessions[x]
<1>1. At(r, "renewed") /\ req[r] # None /\ req[r].stage = "renewed"
  BY DEF StartResponse, At
<1>2. new \in DOMAIN sessions /\ sessions[new] = Unsaved /\ Vouched(req[r])
  BY <1>1, UnderWay DEF RequestStands
<1>3. sessions \in Seq(Status) /\ users \in Seq(Account)
  BY DEF IInv, TypeOK, Status
<1>4. new \in Nat \ {0} /\ req[r].uid \in Nat \ {0}
  BY <1>2, <1>3, LenProperties DEF Vouched
<1>5. req[r].uid \in Status
  BY <1>4 DEF Status
<1>6. sessions' = Holds(new, req[r].uid)
  BY DEF StartResponse
<1> QED
  BY <1>1, <1>2, <1>3, <1>4, <1>5, <1>6, Written

\* The token is on its way to the browser.
LEMMA StartResponseKeeps == ASSUME IInv, NEW r \in Tabs, StartResponse(r) PROVE IInv'
<1>1. req[r] # None /\ req[r].stage = "renewed"
  BY DEF StartResponse, At
<1>2. PICK new : new = req[r].new
  OBVIOUS
<1>3. /\ req[r] \in Request /\ RequestStands(req[r]) /\ r \in Active
      /\ new \in DOMAIN sessions /\ sessions[new] = Unsaved /\ Own(req[r]) = new
      /\ SignsIn(req[r]) /\ Vouched(req[r])
  BY <1>1, <1>2, UnderWay DEF RequestStands, Own
<1>4. /\ UNCHANGED <<users, cookie, unheard, upsets>> /\ sessions \in Seq(Status)
      /\ users \in Seq(Account) /\ cookie \in Nat /\ unheard \in BOOLEAN /\ upsets \in 0 .. MaxUpsets
  BY DEF StartResponse, IInv, TypeOK, Status
<1>5. new \in Nat \ {0}
  BY <1>2, StartResponseSessions
<1>6. /\ sessions' \in Seq(Status) /\ DOMAIN sessions' = DOMAIN sessions /\ sessions'[new] > 0
      /\ \A x \in DOMAIN sessions \ {new} : sessions'[x] = sessions[x]
  BY <1>2, StartResponseSessions
<1>7. PICK a \in Request : /\ req' = [req EXCEPT ![r] = a]
                           /\ a.stage = "answered" /\ a.kind = req[r].kind
                           /\ a.cookie = new /\ a.to = "page" /\ a.new = 0
                           /\ a.token = IF new = Keep THEN 0 ELSE req[r].token
  <2>1. Answers(r, new, "page")
    BY <1>1, <1>2, <1>5 DEF StartResponse, IInv, Answers
  <2> QED
    BY <2>1, Answered
<1>8. new # Keep /\ a.token = req[r].token /\ Own(a) = new
  BY <1>5, <1>7 DEF Own, Keep
<1>9. RequestStands(a)'
  <2>1. a.token # 0 => a.token \in DOMAIN sessions /\ sessions[a.token] # Unsaved
    BY <1>3, <1>8 DEF RequestStands
  <2>2. a.token # 0 => a.token \in DOMAIN sessions' /\ sessions'[a.token] # Unsaved
    BY <1>3, <1>6, <2>1
  <2>3. new > 0 /\ new # 0 /\ new \in DOMAIN sessions' /\ Works(new)'
    BY <1>3, <1>5, <1>6 DEF Works
  <2>4. a.stage = "answered" /\ a.cookie = new
    BY <1>7
  <2> QED
    BY <1>8, <2>2, <2>3, <2>4 DEF RequestStands
<1>10. Spares(Active \ {r})
  <2>1. \A r2 \in Active \ {r} : Own(req[r2]) # 0 =>
          Own(req[r2]) # new /\ Own(req[r2]) \in DOMAIN sessions
    BY <1>3, UnderWay, OwnStands DEF Active, IInv, TokensApart
  <2>2. \A x \in DOMAIN sessions : x \in DOMAIN sessions' /\ Passes(sessions[x], sessions'[x])
    BY <1>3, <1>6 DEF Passes
  <2> QED
    BY <1>4, <1>6, <2>1, <2>2 DEF Spares
<1>11. Apart(r, a) /\ new # cookie
  BY <1>3, <1>4, <1>5, <1>8 DEF Apart, IInv, TokensApart
<1>12. CookieKnown'
  BY <1>4, <1>6, <1>11 DEF IInv, CookieKnown
<1>13. CookieWorks'
  <2>1. \A r2 \in Tabs : req'[r2] = IF r2 = r THEN a ELSE req[r2]
    BY <1>7 DEF IInv, TypeOK
  <2>2. cookie # 0 => sessions'[cookie] = sessions[cookie]
    BY <1>6, <1>11 DEF IInv, CookieKnown
  <2>3. \A r2 \in Tabs : (req[r2] # None /\ Ends(r2)) => req'[r2] # None /\ Ends(r2)'
    BY <1>4, <1>7, <1>8, <2>1, NoneAssumption DEF Ends
  <2> QED
    BY <1>4, <2>2, <2>3 DEF IInv, CookieWorks, IsLive
<1>14. AccountsApart' /\ \A r2 \in Active \ {r} : Own(req[r2]) # 0 => Own(req[r2]) # cookie'
  BY <1>4 DEF IInv, AccountsApart, TokensApart
<1> QED
  BY <1>4, <1>6, <1>7, <1>9, <1>10, <1>11, <1>12, <1>13, <1>14, Step

\* The session signed out of is revoked, if there is one.
LEMMA PostLogoutSessions ==
  ASSUME IInv, NEW r \in Tabs, PostLogout(r), NEW t, t = req[r].token
  PROVE  /\ t \in Nat /\ (t # 0 => t \in DOMAIN sessions /\ sessions[t] # Unsaved)
         /\ sessions \in Seq(Status) /\ sessions' \in Seq(Status) /\ DOMAIN sessions' = DOMAIN sessions
         /\ \A x \in DOMAIN sessions : sessions'[x] = IF x = t THEN Revoked ELSE sessions[x]
<1>1. req[r] # None
  BY DEF PostLogout, At
<1>2. t \in Nat /\ (t # 0 => t \in DOMAIN sessions /\ sessions[t] # Unsaved)
  BY <1>1, UnderWay DEF RequestStands, Request
<1>3. sessions \in Seq(Status) /\ Revoked \in Status
  BY DEF IInv, TypeOK, Status
<1>4. sessions' = IF t = 0 THEN sessions ELSE Holds(t, Revoked)
  BY DEF PostLogout
<1>5. CASE t = 0
  <2>1. 0 \notin DOMAIN sessions
    BY <1>3, LenProperties
  <2> QED
    BY <1>2, <1>3, <1>4, <1>5, <2>1
<1>6. CASE t # 0
  BY <1>2, <1>3, <1>4, <1>6, Written
<1> QED
  BY <1>5, <1>6

\* The session is revoked before its cookie goes.
LEMMA PostLogoutKeeps == ASSUME IInv, NEW r \in Tabs, PostLogout(r) PROVE IInv'
<1>1. req[r] # None /\ req[r].stage = "loaded" /\ req[r].kind = "logout"
  BY DEF PostLogout, At, Kind
<1>2. PICK t : t = req[r].token
  OBVIOUS
<1>3. /\ req[r] \in Request /\ RequestStands(req[r]) /\ r \in Active
      /\ req[r].cookie = Keep /\ ~Ends(r)
      /\ t \in Nat /\ (t # 0 => t \in DOMAIN sessions /\ sessions[t] # Unsaved)
  BY <1>1, <1>2, UnderWay DEF RequestStands, Ends, Request
<1>4. /\ UNCHANGED <<users, cookie, unheard, upsets>> /\ sessions \in Seq(Status)
      /\ users \in Seq(Account) /\ cookie \in Nat /\ unheard \in BOOLEAN /\ upsets \in 0 .. MaxUpsets
  BY DEF PostLogout, IInv, TypeOK, Status
<1>5. /\ sessions' \in Seq(Status) /\ DOMAIN sessions' = DOMAIN sessions
      /\ \A x \in DOMAIN sessions : sessions'[x] = IF x = t THEN Revoked ELSE sessions[x]
  BY <1>2, PostLogoutSessions
<1>6. PICK a \in Request : /\ req' = [req EXCEPT ![r] = a]
                           /\ a.stage = "answered" /\ a.kind = req[r].kind
                           /\ a.cookie = 0 /\ a.to = "form" /\ a.new = 0
                           /\ a.token = IF 0 = Keep THEN 0 ELSE req[r].token
  <2>1. Answers(r, 0, "form")
    BY <1>1 DEF PostLogout, IInv, Answers
  <2> QED
    BY <2>1, Answered
<1>7. a.token = t /\ Own(a) = 0
  BY <1>2, <1>6 DEF Own, Keep
<1>8. RequestStands(a)'
  <2>1. t # 0 => t \in DOMAIN sessions' /\ sessions'[t] = Revoked
    BY <1>3, <1>5
  <2> QED
    BY <1>1, <1>6, <1>7, <2>1 DEF RequestStands, SignsIn, IsLive, Revoked, Unsaved, Keep
<1>9. \A r2 \in Active \ {r} : Own(req[r2]) # 0 =>
        Own(req[r2]) # t /\ Own(req[r2]) # cookie' /\ Own(req[r2]) \in DOMAIN sessions
  BY <1>2, <1>3, <1>4, UnderWay, OwnStands DEF Active, IInv, TokensApart
<1>10. Spares(Active \ {r})
  <2>1. \A x \in DOMAIN sessions : x \in DOMAIN sessions' /\ Passes(sessions[x], sessions'[x])
    BY <1>3, <1>5 DEF Passes
  <2> QED
    BY <1>4, <1>5, <1>9, <2>1 DEF Spares
<1>11. Apart(r, a)
  BY <1>7, <1>9 DEF Apart
<1>12. CookieKnown'
  BY <1>4, <1>5 DEF IInv, CookieKnown, Revoked, Unsaved
<1>13. CookieWorks'
  <2>1. \A r2 \in Tabs : req'[r2] = IF r2 = r THEN a ELSE req[r2]
    BY <1>6 DEF IInv, TypeOK
  <2>2. CASE cookie # 0 /\ t = cookie
    <3>1. req'[r] # None /\ Ends(r)'
      BY <1>4, <1>6, <1>7, <2>1, <2>2, NoneAssumption DEF Ends, Keep
    <3> QED
      BY <3>1 DEF CookieWorks
  <2>3. CASE cookie # 0 /\ t # cookie
    <3>1. sessions'[cookie] = sessions[cookie]
      BY <1>5, <2>3 DEF IInv, CookieKnown
    <3>2. \A r2 \in Tabs : (req[r2] # None /\ Ends(r2)) => req'[r2] # None /\ Ends(r2)'
      BY <1>3, <1>4, <2>1 DEF Ends
    <3> QED
      BY <1>4, <3>1, <3>2 DEF IInv, CookieWorks, IsLive
  <2> QED
    BY <1>4, <2>2, <2>3 DEF CookieWorks
<1>14. AccountsApart'
  BY <1>4 DEF IInv, AccountsApart
<1> QED
  BY <1>4, <1>5, <1>6, <1>8, <1>9, <1>10, <1>11, <1>12, <1>13, <1>14, Step

\* The answer's cookie is the browser's, and it asks for the next page with it.
LEMMA ArriveKeeps == ASSUME IInv, NEW r \in Tabs, Arrive(r) PROVE IInv'
<1>1. req[r] # None /\ req[r].stage = "answered"
  BY DEF Arrive, At
<1>2. PICK c, to : c = req[r].cookie /\ to = req[r].to
  OBVIOUS
<1>3. /\ req[r] \in Request /\ RequestStands(req[r]) /\ r \in Active
      /\ c \in Nat \cup {Keep} /\ to \in {"page", "form", None}
  BY <1>1, <1>2, UnderWay DEF Request
<1>4. /\ UNCHANGED <<users, sessions, upsets>> /\ sessions \in Seq(Status)
      /\ users \in Seq(Account) /\ cookie \in Nat /\ unheard \in BOOLEAN /\ upsets \in 0 .. MaxUpsets
      /\ req \in [Tabs -> Request \cup {None}]
  BY DEF Arrive, IInv, TypeOK, Status
<1>5. PICK token \in Nat : token = cookie'
  BY <1>2, <1>3, <1>4 DEF Arrive
<1>6. token = (IF c = Keep THEN cookie ELSE c) /\ unheard' = (unheard /\ c = Keep)
  BY <1>2, <1>5 DEF Arrive
<1>7. c # Keep /\ c # 0 => c > 0 /\ c \in DOMAIN sessions /\ Works(c) /\ Own(req[r]) = c
  <2>1. c # Keep /\ c # 0 => c > 0
    BY <1>3
  <2> QED
    BY <1>1, <1>2, <1>3, <2>1 DEF RequestStands, Own
<1>8. token # 0 => token \in DOMAIN sessions /\ sessions[token] # Unsaved
  BY <1>3, <1>4, <1>6, <1>7 DEF IInv, CookieKnown, Works, Lapsed, Unsaved
<1>9. PICK new \in Request \cup {None} :
        /\ req' = [req EXCEPT ![r] = new]
        /\ new # None => /\ RequestStands(new) /\ Own(new) = 0
                         /\ (new.token # 0 => new.token = token)
  <2>1. CASE to = None
    <3>1. req' = [req EXCEPT ![r] = None]
      BY <1>2, <2>1 DEF Arrive, Move
    <3> QED
      BY <3>1
  <2>2. CASE to # None
    <3>1. PICK q : q = Sent(to, None, None, token)
      OBVIOUS
    <3>2. req' = [req EXCEPT ![r] = q]
      BY <1>2, <1>5, <2>2, <3>1 DEF Arrive, Move, Sent, IsLive
    <3>3. to \in Kinds /\ to \in {"page", "form"}
      BY <1>3, <2>2 DEF Kinds, Posts
    <3>4. /\ q \in Request /\ q.kind = to /\ q.stage = "loaded" /\ q.new = 0 /\ q.cookie = Keep
          /\ (q.token # 0 => q.token = token /\ IsLive(token))
      <4>1. Sendable(to, None, None, token)
        BY <1>4, <1>8, <3>3 DEF Sendable
      <4> QED
        BY <3>1, <4>1, SentFinds
    <3>5. RequestStands(q) /\ Own(q) = 0
      BY <1>8, <3>3, <3>4 DEF RequestStands, SignsIn, Own
    <3> QED
      BY <3>2, <3>4, <3>5
  <2> QED
    BY <2>1, <2>2
<1>10. CASE c = Keep
  <2>1. UNCHANGED <<users, sessions, cookie, unheard, upsets>> /\ token = cookie
    BY <1>4, <1>5, <1>6, <1>10
  <2>2. ~Ends(r)
    BY <1>1, <1>2, <1>10 DEF Ends
  <2> QED
    BY <1>4, <1>9, <2>1, <2>2, QuietStep
<1>11. CASE c # Keep
  <2>1. token = c /\ cookie' = c /\ cookie' \in Nat
    BY <1>5, <1>6, <1>8, <1>11
  <2>2. CookieKnown' /\ AccountsApart'
    BY <1>4, <1>8, <2>1 DEF IInv, CookieKnown, AccountsApart
  <2>3. CookieWorks'
    BY <1>4, <1>7, <1>8, <1>11, <2>1 DEF CookieWorks, IsLive, Works
  <2>4. \A r2 \in Active \ {r} : Own(req[r2]) # 0 => Own(req[r2]) # c
    BY <1>3, <1>7, <1>11 DEF IInv, TokensApart
  <2>5. Spares(Active \ {r})
    BY <1>4 DEF Spares, Passes
  <2>6. new # None => RequestStands(new)' /\ Apart(r, new)
    BY <1>4, <1>9, <2>1, <2>4 DEF RequestStands, Vouched, IsLive, Works, Apart
  <2>7. unheard' \in BOOLEAN /\ upsets' \in 0 .. MaxUpsets /\ sessions' \in Seq(Status)
        /\ users' \in Seq(Account)
    BY <1>4, <1>6
  <2> QED
    BY <1>9, <2>1, <2>2, <2>3, <2>4, <2>5, <2>6, <2>7, Step
<1> QED
  BY <1>10, <1>11

-----------------------------------------------------------------------------
(***************************************************************************)
(* The theorems.                                                           *)
(***************************************************************************)
LEMMA Start == Init => IInv
<1> SUFFICES ASSUME Init PROVE IInv
  OBVIOUS
<1>1. TypeOK
  <2>1. users \in Seq(Account) /\ sessions \in Seq(Nat \cup {Unsaved, Revoked, Lapsed})
    BY EmptySeq DEF Init
  <2>2. upsets \in 0 .. MaxUpsets
    BY BoundAssumption DEF Init
  <2>3. req \in [Tabs -> Request \cup {None}] /\ cookie \in Nat /\ unheard \in BOOLEAN
    BY DEF Init
  <2> QED
    BY <2>1, <2>2, <2>3 DEF TypeOK
<1>2. Active = {} /\ DOMAIN users = {}
  BY DEF Init, Active
<1> QED
  BY <1>1, <1>2 DEF Init, IInv, AccountsApart, CookieKnown, TokensApart, CookieWorks

LEMMA Kept == IInv /\ [Next]_vars => IInv'
<1> SUFFICES ASSUME IInv, [Next]_vars PROVE IInv'
  OBVIOUS
<1>1. CASE UNCHANGED vars
  <2>1. TypeOK' /\ AccountsApart' /\ CookieKnown'
    BY <1>1 DEF vars, IInv, TypeOK, AccountsApart, CookieKnown
  <2>2. TokensApart'
    BY <1>1 DEF vars, IInv, TokensApart, Active, Own
  <2>3. \A r \in Active' : RequestStands(req[r])'
    BY <1>1 DEF vars, IInv, Active, RequestStands, Vouched, IsLive, Works, SignsIn
  <2>4. CookieWorks'
    BY <1>1 DEF vars, IInv, CookieWorks, IsLive, Ends
  <2> QED
    BY <2>1, <2>2, <2>3, <2>4 DEF IInv
<1>2. ASSUME NEW r \in Tabs, Handle(r) PROVE IInv'
  BY <1>2, GetPageKeeps, GetFormKeeps, PostLoginKeeps, PostRegisterKeeps, PostLogoutKeeps,
     RenewTokenKeeps, StartResponseKeeps, FailsKeeps DEF Handle
<1> QED
  BY <1>1, <1>2, SendKeeps, ArriveKeeps, LoseKeeps, ExpireKeeps DEF Next

LEMMA Invariance == Spec => []IInv
  BY Start, Kept, PTL DEF Spec

\* Every row, token and request keeps its type (users, sessions; auth.User).
THEOREM TypeCorrect == Spec => []TypeOK
  BY Invariance, PTL DEF IInv

\* However an address is typed and however many register it at once, it has one
\* account, which answers to the password it was registered with and to no other
\* (Repo.Create, Service.Register, Service.Authenticate).
THEOREM OneAccount == Spec => []OneAccountPerAddress
<1>1. IInv => OneAccountPerAddress
  <2>1. SUFFICES ASSUME IInv, NEW t \in Typed, NEW k \in DOMAIN users, Lower[users[k].email] = Lower[t]
                 PROVE  /\ \A j \in DOMAIN users : Lower[users[j].email] = Lower[t] => j = k
                        /\ \A p \in Passwords : k \in Matches(t, p) <=> p = users[k].password
    BY DEF OneAccountPerAddress
  <2>2. \A j \in DOMAIN users : Lower[users[j].email] = users[j].email
    BY <2>1 DEF IInv, AccountsApart
  <2>3. \A j \in DOMAIN users : Lower[users[j].email] = Lower[t] => j = k
    BY <2>1, <2>2 DEF IInv, AccountsApart
  <2>4. \A p \in Passwords : k \in Matches(t, p) <=> p = users[k].password
    BY <2>1, <2>2 DEF Matches, Address
  <2> QED
    BY <2>3, <2>4
<1> QED
  BY <1>1, Invariance, PTL

\* An answer takes the cookie away only when its session is over (PostLogout).
THEOREM SignOutsRevoke == Spec => []SignOutRevokes
<1>1. IInv => SignOutRevokes
  BY UnderWay DEF SignOutRevokes, At, RequestStands
<1> QED
  BY <1>1, Invariance, PTL

\* A sign-in that sends a tab to its timers has stored a session nobody else could
\* have ended, and sent its cookie (signIn, render.NewSSE).
THEOREM SignInsStick == Spec => []SignInSticks
<1>1. IInv => SignInSticks
  <2>1. SUFFICES ASSUME IInv, NEW r \in Tabs, req[r] # None, req[r].stage = "answered",
                        SignsIn(req[r]), req[r].to = "page"
                 PROVE  /\ req[r].cookie > 0
                        /\ IsLive(req[r].cookie) \/ sessions[req[r].cookie] = Lapsed
    BY DEF SignInSticks, At, SignsIn
  <2>2. req[r].cookie > 0 /\ Works(req[r].cookie)
    BY <2>1, UnderWay DEF RequestStands
  <2>3. req[r].cookie # 0
    <3>1. req[r].cookie \in Nat \cup {Keep}
      BY <2>1, UnderWay DEF Request
    <3> QED
      BY <2>2, <3>1 DEF Keep
  <2> QED
    BY <2>2, <2>3 DEF Works, IsLive
<1> QED
  BY <1>1, Invariance, PTL

\* The browser's cookie is never silently dead: its session is live, has run out, or was
\* ended by a request whose answer is under way or was lost (RenewToken, Destroy).
THEOREM CookiesWork == Spec => []CookieWorks
  BY Invariance, PTL DEF IInv

\* What a step does to a session that is there.
SessionStep ==
  /\ \A t \in DOMAIN sessions : t \in DOMAIN sessions' /\ Passes(sessions[t], sessions'[t])
  /\ \A t \in DOMAIN sessions' :
       sessions'[t] > 0 /\ (t \in DOMAIN sessions => sessions[t] # sessions'[t])
         => \E r \in Tabs : /\ At(r, "renewed") /\ Vouched(req[r])
                            /\ sessions'[t] = req[r].uid

LEMMA SessionSteps == IInv /\ [Next]_vars => SessionStep
<1> SUFFICES ASSUME IInv, [Next]_vars PROVE SessionStep
  OBVIOUS
<1>0. sessions \in Seq(Status)
  BY DEF IInv, TypeOK, Status
<1>1. UNCHANGED sessions => SessionStep
  BY DEF SessionStep, Passes
<1>2. ASSUME NEW r \in Tabs, RenewToken(r) PROVE SessionStep
  <2>1. PICK t : t = req[r].token
    OBVIOUS
  <2>2. /\ t # 0 => t \in DOMAIN sessions /\ sessions[t] # Unsaved
        /\ \E new \in Nat : /\ new \notin DOMAIN sessions /\ sessions'[new] = Unsaved
                            /\ DOMAIN sessions' = DOMAIN sessions \cup {new}
                            /\ \A x \in DOMAIN sessions :
                                 sessions'[x] = IF x = t THEN Revoked ELSE sessions[x]
    BY <1>2, <2>1, RenewTokenSessions
  <2>3. 0 \notin DOMAIN sessions
    BY <1>0, LenProperties
  <2> QED
    BY <2>2, <2>3 DEF SessionStep, Passes, Unsaved, Revoked
<1>3. ASSUME NEW r \in Tabs, StartResponse(r) PROVE SessionStep
  <2>1. PICK new : new = req[r].new
    OBVIOUS
  <2>2. /\ At(r, "renewed") /\ Vouched(req[r])
        /\ new \in DOMAIN sessions /\ sessions[new] = Unsaved
        /\ DOMAIN sessions' = DOMAIN sessions
        /\ sessions'[new] = req[r].uid /\ sessions'[new] > 0
        /\ \A x \in DOMAIN sessions \ {new} : sessions'[x] = sessions[x]
    BY <1>3, <2>1, StartResponseSessions
  <2> QED
    BY <2>2 DEF SessionStep, Passes
<1>4. ASSUME NEW r \in Tabs, PostLogout(r) PROVE SessionStep
  <2>1. PICK t : t = req[r].token
    OBVIOUS
  <2>2. /\ t # 0 => t \in DOMAIN sessions /\ sessions[t] # Unsaved
        /\ DOMAIN sessions' = DOMAIN sessions
        /\ \A x \in DOMAIN sessions : sessions'[x] = IF x = t THEN Revoked ELSE sessions[x]
    BY <1>4, <2>1, PostLogoutSessions
  <2>3. 0 \notin DOMAIN sessions
    BY <1>0, LenProperties
  <2> QED
    BY <2>2, <2>3 DEF SessionStep, Passes, Revoked
<1>5. ASSUME NEW t \in DOMAIN sessions, Expire(t) PROVE SessionStep
  <2>1. Lapsed \in Status
    BY DEF Status
  <2>2. /\ DOMAIN sessions' = DOMAIN sessions /\ sessions[t] > 0
        /\ \A x \in DOMAIN sessions : sessions'[x] = IF x = t THEN Lapsed ELSE sessions[x]
    BY <1>0, <1>5, <2>1, Written DEF Expire, IsLive
  <2> QED
    BY <2>2 DEF SessionStep, Passes, Lapsed
<1>6. ASSUME NEW r \in Tabs, Send(r) \/ GetPage(r) \/ GetForm(r) \/ PostLogin(r) \/ PostRegister(r)
                             \/ Fails(r) \/ Arrive(r) \/ Lose(r)
      PROVE  UNCHANGED sessions
  BY <1>6 DEF Send, GetPage, GetForm, PostLogin, PostRegister, Fails, Arrive, Lose
<1>7. CASE UNCHANGED vars
  BY <1>1, <1>7 DEF vars
<1> QED
  BY <1>1, <1>2, <1>3, <1>4, <1>5, <1>6, <1>7 DEF Next, Handle

\* A session comes into being only by a password that was checked, for the account it
\* is of, however many steps and other requests lie between the two (signIn).
THEOREM SessionsByPassword == Spec => SessionsAreByPassword
<1> DEFINE A == \A t \in DOMAIN sessions' :
                  sessions'[t] > 0 /\ (t \in DOMAIN sessions => sessions[t] # sessions'[t])
                    => \E r \in Tabs : /\ At(r, "renewed")
                                       /\ sessions'[t] \in DOMAIN users
                                       /\ users[sessions'[t]] = [email |-> Lower[req[r].email],
                                                                 password |-> req[r].password]
<1>1. IInv /\ [Next]_vars => A
  BY SessionSteps DEF SessionStep, Vouched
<1>2. IInv /\ [Next]_vars => [A]_vars
  BY <1>1
<1> QED
  BY <1>2, Invariance, PTL DEF Spec, SessionsAreByPassword

\* A session is one account's until it ends, and an ended one stays ended (signIn).
THEOREM SessionsStayPut == Spec => SessionsNeverChangeHands
<1> DEFINE A == \A t \in DOMAIN sessions :
                  /\ sessions[t] > 0 => sessions'[t] \in {sessions[t], Revoked, Lapsed}
                  /\ sessions[t] \in {Revoked, Lapsed} => sessions'[t] \in {Revoked, Lapsed}
<1>1. IInv /\ [Next]_vars => A
  <2>1. SUFFICES ASSUME IInv, [Next]_vars, NEW t \in DOMAIN sessions
                 PROVE  /\ sessions[t] > 0 => sessions'[t] \in {sessions[t], Revoked, Lapsed}
                        /\ sessions[t] \in {Revoked, Lapsed} => sessions'[t] \in {Revoked, Lapsed}
    OBVIOUS
  <2>2. Passes(sessions[t], sessions'[t])
    BY <2>1, SessionSteps DEF SessionStep
  <2> QED
    BY <2>2 DEF Passes, Unsaved, Revoked, Lapsed
<1>2. IInv /\ [Next]_vars => [A]_vars
  BY <1>1
<1> QED
  BY <1>2, Invariance, PTL DEF Spec, SessionsNeverChangeHands
=============================================================================
