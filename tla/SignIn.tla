------------------------------- MODULE SignIn -------------------------------
(***************************************************************************)
(* One tab of the web front end (apps/web), composed with the login        *)
(* throttle of one account.                                                *)
(*                                                                         *)
(* A sign-in runs beside others in the same tab: the password form, the    *)
(* passkey button and the conditional prompt each wait for an answer of    *)
(* the server and then move the tab, also when the page they came from is  *)
(* left.  The cookie comes with the answer; the router is asked for the    *)
(* next page after that, the server renders it, and until it is shown the  *)
(* old page stays on the screen.  The session cookie is shared, and so is  *)
(* the list of passkeys that React Query keeps under one key for whoever   *)
(* is signed in.                                                           *)
(*                                                                         *)
(* An account has at most one passkey here.                                *)
(***************************************************************************)
EXTENDS LoginThrottle

CONSTANTS
  User,    \* accounts that sign in from the tab
  Target,  \* the account the throttle guards, which also signs in by password
  Tab,     \* the password request of the tab, one of the throttle's
  None     \* no value

ASSUME TabAssumption == Target \in User /\ Tab \in Req /\ None \notin User

VARIABLES
  keys,      \* server: accounts with a passkey
  enrolled,  \* server: whether Target has a second factor
  adrift,    \* changes of passkeys that nobody waits for and the server may yet make
  cookie,    \* whose session cookie the browser holds
  alive,     \* whether the server still knows that session
  page,      \* the page on the screen
  back,      \* callbackUrl of the page
  profile,   \* whose profile the account page was rendered with
  effect,    \* whether the effect of the login or setup page has yet to run
  sent,      \* callbackUrl of the password request under way
  prompt,    \* the WebAuthn login on the screen: who started it, callbackUrl
  verify,    \* passkey logins under way, by who started them
  leaving,   \* the logout button: idle, its request under way, or done
  landed,    \* answers that have come and have not called the router yet
  nav,       \* the page the router waits for, and whose profile if that is /account
  load,      \* the document the browser waits for, likewise
  list,      \* the cached list of passkeys
  fresh,     \* whether it is less than staleTime old
  asked,     \* the query under way: whose, and what the server read
  change,    \* the change of a passkey under way
  dismissed, \* passkey-prompt-dismissed in localStorage
  behind,    \* history: the account page has asked nothing since it was opened, or asked
             \* for another account, or an answer was lost
  astray     \* history: the last answer to a sign-in was cut off after its cookie, or the
             \* cookie changed while the document was loaded

server == <<keys, enrolled, adrift>>
session == <<cookie, alive>>
screen == <<page, back, profile, effect>>
query == <<list, fresh, asked, behind>>
requests == <<sent, verify, leaving>>
moves == <<landed, nav, load, astray>>
web == <<server, session, screen, query, requests, moves, prompt, change, dismissed>>
allVars == <<vars, web>>

-----------------------------------------------------------------------------
Pages == {"login", "mfa", "setup", "account", "failed"}
Backs == {"account", "mfa", "setup"}
By == {"autofill", "button"}
SignIns == By \cup {"password"}
Answer == [by : SignIns \cup {"challenge", "logout"}, to : Backs \cup {"login"}, back : Backs]
Visit == [page : Pages, back : Backs, user : User \cup {None}]
Query == [user : User \cup {None}, read : (SUBSET User) \cup {None}]
Change == [op : {"register", "rename", "delete"}, user : User, done : BOOLEAN, to : Backs \cup {None}]
ASSUME NoneAssumption == None \notin Query \cup Change \cup Visit

Mine(u) == keys \cap {u}

WebInit ==
  /\ Init
  /\ keys \in SUBSET User /\ enrolled \in BOOLEAN /\ adrift = {}
  /\ cookie = None /\ alive = FALSE
  /\ page = "login" /\ back = "account" /\ profile = None /\ effect = TRUE
  /\ sent = None /\ prompt = None
  /\ verify = [by \in By |-> None]
  /\ leaving = "no" /\ landed = {} /\ nav = None /\ load = None
  /\ list = None /\ fresh = FALSE /\ asked = None
  /\ change = None /\ dismissed = FALSE
  /\ behind = FALSE /\ astray = FALSE

\* middleware.ts: where a request for a page ends.
Middleware(p, c) ==
  CASE p = "login" /\ c # None -> "account"
    [] p # "login" /\ c = None -> "login"
    [] OTHER -> p

\* A request for page p with callbackUrl b, made with the cookie of now.  The account
\* page fetches the profile with it, and throws without a session; of the other pages,
\* only the login and the setup page use their callbackUrl.
Requested(p, b) ==
  LET q == Middleware(p, cookie)
  IN  [page |-> IF q = "account" /\ ~alive THEN "failed" ELSE q,
       back |-> CASE q = "login" /\ p # "login" -> p
                  [] q \in {"account", "mfa"} -> "account"
                  [] OTHER -> b,
       user |-> IF q = "account" THEN cookie ELSE None]

\* What it comes to: the session may have ended before the server looked at it.
Rendered(v) ==
  {v.page} \cup (IF v.page = "account" /\ ~(v.user = cookie /\ alive) THEN {"failed"} ELSE {})

\* router.push and router.replace: the last call counts, whatever is waited for.
Push(p, b) == nav' = Requested(p, b) /\ astray' = FALSE

\* useQuery asks when its page is mounted, unless it has a fresh answer or a query
\* under way.
Asks(q) ==
  /\ q \in {"setup", "account"} \ {page}
  /\ asked = None /\ ~(list # None /\ fresh)

\* The page waited for is shown.  One that was on the screen already stays mounted: its
\* effects and queries do not run again, but for a new callbackUrl.
Show ==
  /\ nav # None /\ nav' = None
  /\ \E q \in Rendered(nav) :
        /\ page' = q /\ back' = nav.back
        /\ profile' = IF q = "account" THEN nav.user ELSE None
        /\ effect' = \/ q \in {"login", "setup"} /\ (q # page \/ effect)
                     \/ q = "setup" /\ nav.back # back
        /\ prompt' = IF prompt # None /\ q # "login" /\ prompt.by = "autofill" THEN None ELSE prompt
        /\ leaving' = IF leaving = "done" /\ q # "account" THEN "no" ELSE leaving
        /\ asked' = IF Asks(q) THEN [user |-> cookie, read |-> None] ELSE asked
        /\ behind' = (q = "account" /\ (~Asks(q) \/ cookie \notin {nav.user, None}))
  /\ UNCHANGED <<vars, server, session, sent, verify, landed, load, astray, list, fresh, change,
                 dismissed>>

\* A page is opened by its address; the old one stays while the browser waits.
Open(p) ==
  /\ load' = Requested(p, "account")
  /\ UNCHANGED <<vars, server, session, screen, query, requests, landed, nav, astray, prompt,
                 change, dismissed>>

\* A change that the server has not made yet, should the tab wait for it no longer.
Unanswered ==
  IF change = None \/ change.done \/ change.op = "rename" THEN {}
  ELSE {[op |-> change.op, user |-> change.user]}

\* The scripts of the tab start again: answers to what they had asked are lost, cookies
\* and all, but the server may still do it.
Loaded ==
  /\ load # None /\ load' = None
  /\ \E q \in Rendered(load) :
        /\ page' = q /\ back' = load.back
        /\ profile' = IF q = "account" THEN load.user ELSE None
        /\ effect' = (q \in {"login", "setup"})
        /\ asked' = IF q \in {"setup", "account"} THEN [user |-> cookie, read |-> None] ELSE None
        /\ behind' = (q = "account" /\ cookie \notin {load.user, None})
        /\ astray' = (q = "account" /\ load.user # cookie)
  /\ sent' = None /\ verify' = [by \in By |-> None] /\ leaving' = "no" /\ prompt' = None
  /\ landed' = {} /\ nav' = None
  /\ list' = None /\ fresh' = FALSE
  /\ change' = None /\ adrift' = adrift \cup Unanswered
  /\ UNCHANGED <<vars, keys, enrolled, session, dismissed>>

\* Mutant of GoOn: the tab moves only when the login page is still there.
GoOnIfStillThere(m) ==
  /\ m \in landed /\ landed' = landed \ {m}
  /\ IF page = "login" \/ m.by = "logout" THEN Push(m.to, m.back) ELSE UNCHANGED <<nav, astray>>
  /\ UNCHANGED <<vars, server, session, screen, query, requests, load, prompt, change, dismissed>>
\* Whoever waited for the answer calls the router, whatever page the tab shows by now.
GoOn(m) ==
  /\ m \in landed /\ landed' = landed \ {m}
  /\ Push(m.to, m.back)
  /\ UNCHANGED <<vars, server, session, screen, query, requests, load, prompt, change, dismissed>>

\* The body of the answer does not come, or is no JSON: the cookie stays.
CutOff(m) ==
  /\ m \in landed /\ landed' = landed \ {m}
  /\ astray' = (astray \/ m.by \in SignIns)
  /\ leaving' = IF m.by = "logout" THEN "no" ELSE leaving
  /\ UNCHANGED <<vars, server, session, screen, query, sent, verify, nav, load, prompt, change,
                 dismissed>>

-----------------------------------------------------------------------------
(* The password form *)

SubmitPassword ==
  /\ page = "login" /\ sent = None
  /\ \A m \in landed : m.by \notin {"password", "challenge"}
  /\ Admit(Tab)
  /\ sent' = back
  /\ UNCHANGED <<server, session, screen, query, verify, leaving, moves, prompt, change, dismissed>>

\* Mutant of WrongPassword: the form stays as if its request were under way.
WrongPasswordStays ==
  /\ sent # None
  /\ Fail(Tab)
  /\ UNCHANGED web
\* The form shows the error and may be sent again.
WrongPassword ==
  /\ sent # None
  /\ Fail(Tab)
  /\ sent' = None
  /\ UNCHANGED <<server, session, screen, query, verify, leaving, moves, prompt, change, dismissed>>

\* The account's first factor is in order.  The answer is a challenge, or a session
\* whose cookie comes with it, or is lost.
RightPassword ==
  /\ sent # None
  /\ Leave(Tab)
  /\ sent' = None
  /\ \/ /\ enrolled /\ UNCHANGED session
        /\ landed' = landed \cup {[by |-> "challenge", to |-> "mfa", back |-> sent]}
     \/ /\ ~enrolled /\ cookie' = Target /\ alive' = TRUE
        /\ landed' = landed \cup {[by |-> "password", to |-> "setup", back |-> sent]}
     \/ UNCHANGED <<session, landed>>
  /\ UNCHANGED <<server, screen, query, verify, leaving, nav, load, astray, prompt, change, dismissed>>

\* The code form of /mfa: it posts to /api/auth/mfa/totp/verify or recovery/verify.
\* The server has neither route, so the form shows an error and nothing changes.
SubmitCode == page = "mfa" /\ UNCHANGED allVars

\* The other clients of the throttle, and a request of the tab it no longer waits for.
Elsewhere ==
  /\ \E r \in Req : \/ r # Tab /\ Admit(r)
                    \/ Refuse(r)
                    \/ (r # Tab \/ sent = None) /\ (Fail(r) \/ Leave(r))
  /\ UNCHANGED web

-----------------------------------------------------------------------------
(* Passkeys at the login page.  Starting a ceremony aborts the one on the screen. *)

StartAutofill ==
  /\ page = "login" /\ effect
  /\ effect' = FALSE
  /\ prompt' = [by |-> "autofill", to |-> "account"]
  /\ UNCHANGED <<vars, server, session, page, back, profile, query, requests, moves, change, dismissed>>

PressButton ==
  /\ page = "login" /\ verify["button"] = None
  /\ \A m \in landed : m.by # "button"
  /\ prompt # [by |-> "button", to |-> back]
  /\ prompt' = [by |-> "button", to |-> back]
  /\ UNCHANGED <<vars, server, session, screen, query, requests, moves, change, dismissed>>

CancelPrompt ==
  /\ prompt # None
  /\ prompt' = None
  /\ UNCHANGED <<vars, server, session, screen, query, requests, moves, change, dismissed>>

\* A credential is picked, and goes to the server.
Pick(u) ==
  /\ prompt # None /\ verify[prompt.by] = None
  /\ verify' = [verify EXCEPT ![prompt.by] = [user |-> u, to |-> prompt.to]]
  /\ prompt' = None
  /\ UNCHANGED <<vars, server, session, screen, query, sent, leaving, moves, change, dismissed>>

\* The session's cookie comes with the answer.
SignedIn(by) ==
  LET v == verify[by] IN
  /\ v # None /\ v.user \in keys
  /\ verify' = [verify EXCEPT ![by] = None]
  /\ cookie' = v.user /\ alive' = TRUE
  /\ landed' = landed \cup {[by |-> by, to |-> v.to, back |-> "account"]}
  /\ UNCHANGED <<vars, server, screen, query, sent, leaving, nav, load, astray, prompt, change,
                 dismissed>>

NotSignedIn(by) ==
  /\ verify[by] # None
  /\ verify' = [verify EXCEPT ![by] = None]
  /\ UNCHANGED <<vars, server, session, screen, query, sent, leaving, moves, prompt, change, dismissed>>

-----------------------------------------------------------------------------
(* SetupPasskeyPrompt and PasskeyManager *)

Listed == IF list = None THEN {} ELSE list
ShouldSkip == dismissed \/ Listed # {}
Loading == list = None /\ asked # None

SkipSetup ==
  /\ page = "setup" /\ ShouldSkip /\ effect
  /\ effect' = FALSE
  /\ Push(back, "account")
  /\ UNCHANGED <<vars, server, session, page, back, profile, query, requests, landed, load, prompt,
                 change, dismissed>>

NotNow ==
  /\ page = "setup" /\ ~ShouldSkip /\ ~Loading /\ change = None
  /\ dismissed' = TRUE
  /\ Push(back, "account")
  /\ UNCHANGED <<vars, server, session, screen, query, requests, landed, load, prompt, change>>

\* The authenticator made a credential; "to" is where the setup page goes next.
Register ==
  /\ change = None /\ cookie # None /\ cookie \notin keys
  /\ page = "account" \/ (page = "setup" /\ ~ShouldSkip /\ ~Loading)
  /\ change' = [op |-> "register", user |-> cookie, done |-> FALSE,
                to |-> IF page = "setup" THEN back ELSE None]
  /\ prompt' = None
  /\ UNCHANGED <<vars, server, session, screen, query, requests, moves, dismissed>>

\* A row listed is renamed or deleted; the server refuses one of another account.
ChangeRow(op) ==
  /\ page = "account" /\ change = None /\ cookie # None /\ cookie \in Listed
  /\ change' = [op |-> op, user |-> cookie, done |-> FALSE, to |-> None]
  /\ UNCHANGED <<vars, server, session, screen, query, requests, moves, prompt, dismissed>>

\* The passkeys after a change: of a name, it changes nothing told apart here.
Changed(c) ==
  CASE c.op = "register" -> keys \cup {c.user}
    [] c.op = "rename" -> keys
    [] c.op = "delete" -> keys \ {c.user}

\* The server makes the change.  Another deletion of the row finds none.
ChangeServed ==
  /\ change # None /\ ~change.done
  /\ keys' = Changed(change)
  /\ adrift' = IF change.op = "delete" THEN adrift \ {[op |-> "delete", user |-> change.user]}
                                       ELSE adrift
  /\ change' = [change EXCEPT !.done = TRUE]
  /\ UNCHANGED <<vars, enrolled, session, screen, query, requests, moves, prompt, dismissed>>

\* The server makes a change that no page waits for any more, or refuses it.
ChangeDrifts(c) ==
  /\ c \in adrift /\ adrift' = adrift \ {c}
  /\ \/ keys' = Changed(c) /\ behind' = (behind \/ page = "account")
     \/ UNCHANGED <<keys, behind>>
  /\ UNCHANGED <<vars, enrolled, session, screen, list, fresh, asked, requests, moves, prompt,
                 change, dismissed>>

\* Mutant of Invalidate: a query under way is taken for an answer.
InvalidateUnlessAsked ==
  IF page \in {"setup", "account"}
  THEN /\ asked' = IF asked = None THEN [user |-> cookie, read |-> None] ELSE asked
       /\ behind' = (page = "account" /\ cookie \notin {profile, None})
       /\ UNCHANGED <<list, fresh>>
  ELSE fresh' = FALSE /\ UNCHANGED <<list, asked, behind>>
\* invalidateQueries: a query on the screen is asked anew, in place of one under way;
\* one that is not is fresh no longer.
Invalidate ==
  IF page \in {"setup", "account"}
  THEN /\ asked' = [user |-> cookie, read |-> None]
       /\ behind' = (page = "account" /\ cookie \notin {profile, None})
       /\ UNCHANGED <<list, fresh>>
  ELSE fresh' = FALSE /\ UNCHANGED <<list, asked, behind>>

\* The setup page goes on without invalidating the list.
ChangeAnswered ==
  /\ change # None /\ change.done
  /\ change' = None
  /\ IF change.to = None
     THEN Invalidate /\ UNCHANGED <<nav, astray>>
     ELSE /\ Push(change.to, "account")
          /\ behind' = (behind \/ page = "account")
          /\ UNCHANGED <<list, fresh, asked>>
  /\ UNCHANGED <<vars, server, session, screen, requests, landed, load, prompt, dismissed>>

\* The change is refused, or its answer is lost; then the server may make it still.
ChangeFailed ==
  /\ change # None
  /\ change' = None
  /\ adrift' \in {adrift, adrift \cup Unanswered}
  /\ behind' = (behind \/ (change.done /\ page = "account"))
  /\ UNCHANGED <<vars, keys, enrolled, session, screen, list, fresh, asked, requests, moves, prompt,
                 dismissed>>

ListRead ==
  /\ asked # None /\ asked.read = None /\ asked.user # None
  /\ asked' = [asked EXCEPT !.read = Mine(asked.user)]
  /\ UNCHANGED <<vars, server, session, screen, list, fresh, behind, requests, moves, prompt, change,
                 dismissed>>

ListArrives ==
  /\ asked # None /\ asked.read # None
  /\ list' = asked.read /\ fresh' = TRUE /\ asked' = None
  /\ UNCHANGED <<vars, server, session, screen, behind, requests, moves, prompt, change, dismissed>>

\* retry is false: the list stays what it was.
ListFails ==
  /\ asked # None
  /\ asked' = None /\ behind' = (behind \/ page = "account")
  /\ UNCHANGED <<vars, server, session, screen, list, fresh, requests, moves, prompt, change, dismissed>>

\* staleTime is over.
Age60 ==
  /\ list # None /\ fresh /\ fresh' = FALSE
  /\ UNCHANGED <<vars, server, session, screen, list, asked, behind, requests, moves, prompt, change,
                 dismissed>>

-----------------------------------------------------------------------------
(* The end of a session *)

LogOut ==
  /\ page = "account" /\ leaving = "no"
  /\ leaving' = "asked"
  /\ UNCHANGED <<vars, server, session, screen, query, sent, verify, moves, prompt, change, dismissed>>

\* The answer clears the cookie, whosever it is by now.
LoggedOut ==
  /\ leaving = "asked" /\ leaving' = "done"
  /\ cookie' = None /\ alive' = FALSE
  /\ landed' = landed \cup {[by |-> "logout", to |-> "login", back |-> "account"]}
  /\ UNCHANGED <<vars, server, screen, query, sent, verify, nav, load, astray, prompt, change,
                 dismissed>>

LogOutFails ==
  /\ leaving = "asked" /\ leaving' = "no"
  /\ UNCHANGED <<vars, server, session, screen, query, sent, verify, moves, prompt, change, dismissed>>

\* The session is revoked from elsewhere; the browser does not notice.
Revoked ==
  /\ alive /\ alive' = FALSE
  /\ UNCHANGED <<vars, server, cookie, screen, query, requests, moves, prompt, change, dismissed>>

\* maxAge of the cookie is over.
CookieExpires ==
  /\ cookie # None /\ cookie' = None /\ alive' = FALSE
  /\ UNCHANGED <<vars, server, screen, query, requests, moves, prompt, change, dismissed>>

-----------------------------------------------------------------------------
\* Login attempts grow old.
TimePasses == Tick /\ UNCHANGED web

WebNext ==
  \/ Show \/ Loaded
  \/ \E p \in {"login", "mfa", "setup", "account"} : Open(p)
  \/ \E m \in landed : GoOn(m) \/ CutOff(m)
  \/ SubmitPassword \/ WrongPassword \/ RightPassword \/ SubmitCode \/ Elsewhere
  \/ StartAutofill \/ PressButton \/ CancelPrompt
  \/ \E u \in User : Pick(u)
  \/ \E by \in By : SignedIn(by) \/ NotSignedIn(by)
  \/ SkipSetup \/ NotNow \/ Register \/ ChangeRow("rename") \/ ChangeRow("delete")
  \/ ChangeServed \/ ChangeAnswered \/ ChangeFailed
  \/ \E c \in adrift : ChangeDrifts(c)
  \/ ListRead \/ ListArrives \/ ListFails \/ Age60
  \/ LogOut \/ LoggedOut \/ LogOutFails \/ Revoked \/ CookieExpires
  \/ TimePasses

\* Time goes on, whatever the tab and the other logins do.
WebSpec == WebInit /\ [][WebNext]_allVars /\ WF_allVars(TimePasses)

-----------------------------------------------------------------------------
WebTypeOK ==
  /\ TypeOK
  /\ keys \subseteq User /\ enrolled \in BOOLEAN
  /\ adrift \subseteq [op : {"register", "delete"}, user : User]
  /\ cookie \in User \cup {None} /\ alive \in BOOLEAN
  /\ page \in Pages /\ back \in Backs /\ profile \in User \cup {None} /\ effect \in BOOLEAN
  /\ sent \in Backs \cup {None} /\ (sent # None => pc[Tab] = "verify")
  /\ prompt \in [by : By, to : Backs] \cup {None}
  /\ verify \in [By -> [user : User, to : Backs] \cup {None}]
  /\ leaving \in {"no", "asked", "done"} /\ landed \subseteq Answer
  /\ nav \in Visit \cup {None} /\ load \in Visit \cup {None}
  /\ list \in (SUBSET User) \cup {None} /\ fresh \in BOOLEAN
  /\ asked \in Query \cup {None} /\ change \in Change \cup {None} /\ dismissed \in BOOLEAN
  /\ behind \in BOOLEAN /\ astray \in BOOLEAN

\* However many sign-ins and logouts overlap, and whatever page their answers find, once
\* each of them has moved the tab and the page is there, an account page shows the
\* profile of the session the browser holds.  It takes that no answer was cut off
\* between its cookie and its body, and that none brought a cookie while the document
\* was being loaded.
ProfileIsOwn ==
  page = "account" /\ cookie # None /\ landed = {} /\ nav = None => profile = cookie \/ astray

\* The passkeys an account page lists, once nothing is under way, are those of its
\* account, unless the page was opened on a list read before, or asked with the cookie
\* of another, or an answer was lost.
ListCurrentUnlessBehind ==
  page = "account" /\ cookie = profile /\ asked = None /\ change = None /\ list # None
    => list = Mine(cookie) \/ behind

-----------------------------------------------------------------------------
(* What carries these: SignInInv is inductive. *)

\* A session in the cookie has an answer that will yet move the tab, or a page asked
\* for with it, or it is the session of the page on the screen.
OnTheWay ==
  cookie # None /\ ~astray =>
    \/ \E m \in landed : m.by \in SignIns
    \/ nav # None /\ (nav.page = "account" => nav.user = cookie)
    \/ nav = None /\ (page = "account" => profile = cookie)

\* What an account page has asked for is the list of its account, and so is what it
\* shows, but for a change the server has made and not yet answered.
ListOwn ==
  LET pending == change # None /\ change.done
      current(l) == l = Mine(profile) \/ pending
  IN  page = "account" /\ ~behind =>
        /\ asked # None => asked.user \in {profile, None}
        /\ asked # None /\ asked.read # None => asked.user = profile /\ current(asked.read)
        /\ asked = None /\ list # None => current(list)

SignInInv == WebTypeOK /\ GuessesLeft /\ OnTheWay /\ ListOwn
=============================================================================
