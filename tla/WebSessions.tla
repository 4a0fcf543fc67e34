----------------------------- MODULE WebSessions -----------------------------
(* The accounts and the logins of the web interface.                       *)
(*                                                                         *)
(* Requests run concurrently and every statement of a request is a step:   *)
(* the database serialises statements, not handlers.  A login checks a     *)
(* password, or comes back from the identity provider with a ticket and    *)
(* has its account provisioned, and is then issued a session.  A signed-in *)
(* request, or the operator on the daemon's socket, creates and deletes    *)
(* accounts and replaces passwords.                                        *)
EXTENDS Naturals, FiniteSets, SequencesExt

CONSTANTS Clients,        \* the concurrent requests
          BaseNames,      \* the names a provider may prefer
          CreatedNames,   \* the names accounts are created with
          Subjects,       \* the provider's subjects
          Passwords,
          MaxPending,     \* MAX_PENDING
          MaxAttempts,    \* the names provisioning tries
          MaxAccounts, MaxTokens, MaxTickets

ASSUME WebAssumption ==
  {MaxPending, MaxAttempts, MaxAccounts, MaxTokens, MaxTickets} \subseteq Nat \ {0}

VARIABLES
  accounts,     \* users, by id
  accountCount, \* the ids given out, which are never given out again
  webSessions,  \* sessions
  tokenCount,
  tickets,      \* PendingLogins, oldest first
  ticketCount,
  ticketUses,   \* how often each ticket has been taken
  web           \* each request

webVars == <<accounts, accountCount, webSessions, tokenCount, tickets, ticketCount, ticketUses, web>>
tableVars == <<accounts, accountCount, webSessions, tokenCount>>
ticketVars == <<tickets, ticketCount, ticketUses>>

NoOne == 0
NoText == "none"
NoWeb == [at |-> "idle", user |-> NoOne, actor |-> NoOne, token |-> 0, subject |-> NoText,
          name |-> NoText, attempt |-> 0]

WebAt(q, at) == web' = [web EXCEPT ![q].at = at]
WebAtFor(q, at, id) == web' = [web EXCEPT ![q].at = at, ![q].user = id]
\* The answer ends the request; what it says is kept nowhere.
Respond(q, answer) == web' = [web EXCEPT ![q] = NoWeb]

Account(name, source, subject, password) ==
  [name |-> name, source |-> source, subject |-> subject, password |-> password]
ByName(name) == {i \in DOMAIN accounts : accounts[i].name = name}
BySubject(subject) == {i \in DOMAIN accounts : accounts[i].subject = subject}

\* The unique keys of the users table.
Violates(row) ==
  \/ ByName(row.name) # {}
  \/ row.subject # NoText /\ BySubject(row.subject) # {}

Inserted(row) ==
  /\ accountCount < MaxAccounts
  /\ accountCount' = accountCount + 1
  /\ accounts' = accounts @@ (accountCount' :> row)

\* The foreign key of the sessions table: an account takes its sessions along.
Cascade(id) == {s \in webSessions : s.user # id}

Deleted(id) ==
  /\ accounts' = [i \in DOMAIN accounts \ {id} |-> accounts[i]]
  /\ webSessions' = Cascade(id)
  /\ UNCHANGED <<accountCount, tokenCount>>

----------------------------------------------------------------------------
(* Logging in with a password.                                              *)

\* session::login: the credential is read and verified; an account without a
\* password, or no account, never verifies.
PasswordLogin(q, name, password, enabled) ==
  /\ web[q].at = "idle"
  /\ LET found == {i \in ByName(name) : accounts[i].password = password}
     IN  IF ~enabled THEN Respond(q, "conflict")
         ELSE IF found = {} THEN Respond(q, "unauthenticated")
         ELSE \E i \in found : WebAtFor(q, "issue", i)
  /\ UNCHANGED <<tableVars, ticketVars>>

\* issue_for_user and SessionService::insert: expired rows go, by a statement
\* of their own, before the new one comes.
PurgeExpired(q) ==
  /\ web[q].at = "issue"
  /\ webSessions' = {s \in webSessions : ~s.expired}
  /\ WebAt(q, "session")
  /\ UNCHANGED <<accounts, accountCount, tokenCount, ticketVars>>

\* The foreign key refuses a session whose account has gone meanwhile.
IssueSession(q) ==
  /\ web[q].at = "session"
  /\ IF web[q].user \notin DOMAIN accounts
     THEN Respond(q, "internal") /\ UNCHANGED <<webSessions, tokenCount>>
     ELSE /\ tokenCount < MaxTokens
          /\ tokenCount' = tokenCount + 1
          /\ webSessions' = webSessions \cup {[token |-> tokenCount', user |-> web[q].user,
                                               subject |-> web[q].subject, expired |-> FALSE]}
          /\ Respond(q, "signed_in")
  /\ UNCHANGED <<accounts, accountCount, ticketVars>>

----------------------------------------------------------------------------
(* Logging in with the provider.                                            *)

EvictOldest(pending) == IF Len(pending) >= MaxPending THEN Tail(pending) ELSE pending

\* begin_login and PendingLogins::insert.
BeginLogin(q, discovered) ==
  /\ web[q].at = "idle"
  /\ ticketCount < MaxTickets
  /\ IF discovered
     THEN /\ ticketCount' = ticketCount + 1
          /\ tickets' = Append(EvictOldest(SelectSeq(tickets, LAMBDA t : ~t.expired)),
                               [id |-> ticketCount', expired |-> FALSE])
          /\ Respond(q, "redirected")
     ELSE Respond(q, "conflict") /\ UNCHANGED <<tickets, ticketCount>>
  /\ UNCHANGED <<tableVars, ticketUses>>

TicketExpires(i) ==
  /\ i \in DOMAIN tickets
  /\ ~tickets[i].expired
  /\ \A j \in 1..(i - 1) : tickets[j].expired
  /\ tickets' = [tickets EXCEPT ![i].expired = TRUE]
  /\ UNCHANGED <<tableVars, ticketCount, ticketUses, web>>

\* PendingLogins::take removes whatever it finds.
TicketTaken(t) == SelectSeq(tickets, LAMBDA p : p.id # t)

\* The callback: a state that is not the browser's own is refused before the
\* ticket is touched.
Callback(q, t, bound) ==
  /\ web[q].at = "idle"
  /\ IF ~bound THEN Respond(q, "unauthenticated") /\ UNCHANGED <<tickets, ticketUses>>
     ELSE /\ tickets' = TicketTaken(t)
          /\ IF \E i \in DOMAIN tickets : tickets[i].id = t /\ ~tickets[i].expired
             THEN /\ ticketUses' = [ticketUses EXCEPT ![t] = @ + 1]
                  /\ WebAt(q, "exchange")
             ELSE Respond(q, "unauthenticated") /\ UNCHANGED ticketUses
  /\ UNCHANGED <<tableVars, ticketCount>>

\* The code is exchanged and the identity token verified, or not.
Exchange(q, subject, base) ==
  /\ web[q].at = "exchange"
  /\ web' = [web EXCEPT ![q].at = "find", ![q].subject = subject, ![q].name = base]
  /\ UNCHANGED <<tableVars, ticketVars>>

ExchangeFails(q) ==
  /\ web[q].at = "exchange"
  /\ Respond(q, "unauthenticated")
  /\ UNCHANGED <<tableVars, ticketVars>>

\* The preferred name, then the same with "-1", "-2"...
CandidateName(q) == <<web[q].name, web[q].attempt>>

\* provision_oidc_user: the subject's account, if it has one.
FindSubject(q) ==
  /\ web[q].at = "find"
  /\ LET found == BySubject(web[q].subject)
     IN  IF found # {} THEN \E i \in found : WebAtFor(q, "issue", i)
         ELSE WebAt(q, "insert")
  /\ UNCHANGED <<tableVars, ticketVars>>

InsertSubject(q) ==
  /\ web[q].at = "insert"
  /\ LET row == Account(CandidateName(q), "oidc", web[q].subject, NoText)
     IN  IF Violates(row) THEN WebAt(q, "again") /\ UNCHANGED <<accounts, accountCount>>
         ELSE Inserted(row) /\ WebAtFor(q, "issue", accountCount')
  /\ UNCHANGED <<webSessions, tokenCount, ticketVars>>

\* A mutant: the loser looks for the account by the name it wanted.
WinnerByName(q) == ByName(CandidateName(q))

\* "A concurrent login for the same subject may have won."
Winner(q) == BySubject(web[q].subject)

NextName(q) == web[q].attempt + 1

LookAgain(q) ==
  /\ web[q].at = "again"
  /\ IF Winner(q) # {} THEN \E i \in Winner(q) : WebAtFor(q, "issue", i)
     ELSE IF NextName(q) < MaxAttempts
     THEN web' = [web EXCEPT ![q].at = "insert", ![q].attempt = NextName(q)]
     ELSE Respond(q, "taken")
  /\ UNCHANGED <<tableVars, ticketVars>>

----------------------------------------------------------------------------
(* Signed-in requests and the operator.                                     *)

\* SessionService::resolve.
LiveSessions(token) == {s \in webSessions : s.token = token /\ ~s.expired}

\* attach_identity and RequireUser: some presented cookie names a live session.
Authenticate(q, token) ==
  /\ web[q].at = "idle"
  /\ IF LiveSessions(token) = {} THEN Respond(q, "unauthenticated")
     ELSE \E s \in LiveSessions(token) :
            web' = [web EXCEPT ![q].at = "act", ![q].actor = s.user, ![q].token = token]
  /\ UNCHANGED <<tableVars, ticketVars>>

\* The operator's socket needs no session, and there is none to keep.
OperatorActs(q) ==
  /\ web[q].at = "idle"
  /\ WebAt(q, "act")
  /\ UNCHANGED <<tableVars, ticketVars>>

CreateUser(q, name, password, enabled) ==
  /\ web[q].at = "act"
  /\ LET row == Account(name, "authdb", NoText, password)
     IN  IF ~enabled THEN Respond(q, "conflict") /\ UNCHANGED <<accounts, accountCount>>
         ELSE IF Violates(row) THEN Respond(q, "taken") /\ UNCHANGED <<accounts, accountCount>>
         ELSE Inserted(row) /\ Respond(q, "created")
  /\ UNCHANGED <<webSessions, tokenCount, ticketVars>>

DeleteUser(q, id) ==
  /\ web[q].at = "act"
  /\ IF web[q].actor = id THEN Respond(q, "forbidden") /\ UNCHANGED tableVars
     ELSE IF id \notin DOMAIN accounts THEN Respond(q, "not_found") /\ UNCHANGED tableVars
     ELSE Deleted(id) /\ Respond(q, "deleted")
  /\ UNCHANGED ticketVars

\* set_password_hash reads the row, and then updates it.
FindTarget(q, id) ==
  /\ web[q].at = "act"
  /\ IF id \notin DOMAIN accounts THEN Respond(q, "not_found")
     ELSE IF accounts[id].source # "authdb" THEN Respond(q, "conflict")
     ELSE WebAtFor(q, "update", id)
  /\ UNCHANGED <<tableVars, ticketVars>>

SetPasswordHash(q, password) ==
  /\ web[q].at = "update"
  /\ IF web[q].user \notin DOMAIN accounts
     THEN Respond(q, "internal") /\ UNCHANGED accounts
     ELSE /\ accounts' = [accounts EXCEPT ![web[q].user].password = password]
          /\ WebAt(q, "sign_out")
  /\ UNCHANGED <<accountCount, webSessions, tokenCount, ticketVars>>

\* The acting session is kept when the account is the actor's own.
KeepsSession(q) == IF web[q].actor = web[q].user THEN {web[q].token} ELSE {}

\* delete_for_user.
SignOut(q) ==
  /\ web[q].at = "sign_out"
  /\ webSessions' = {s \in webSessions : s.user = web[q].user => s.token \in KeepsSession(q)}
  /\ Respond(q, "changed")
  /\ UNCHANGED <<accounts, accountCount, tokenCount, ticketVars>>

\* logout, for one presented cookie; further ones repeat it.
Logout(q, token) ==
  /\ web[q].at = "idle"
  /\ webSessions' = {s \in webSessions : s.token # token}
  /\ Respond(q, "signed_out")
  /\ UNCHANGED <<accounts, accountCount, tokenCount, ticketVars>>

----------------------------------------------------------------------------
SessionExpires(s) ==
  /\ s \in webSessions /\ ~s.expired
  /\ webSessions' = (webSessions \ {s}) \cup {[s EXCEPT !.expired = TRUE]}
  /\ UNCHANGED <<accounts, accountCount, tokenCount, ticketVars, web>>

\* A statement fails, or the browser goes away: what was written stays.
StoreFails(q) ==
  /\ web[q].at # "idle"
  /\ Respond(q, "internal")
  /\ UNCHANGED <<tableVars, ticketVars>>

WebInit ==
  /\ accounts = <<>>
  /\ accountCount = 0
  /\ webSessions = {}
  /\ tokenCount = 0
  /\ tickets = <<>>
  /\ ticketCount = 0
  /\ ticketUses = [t \in 1..MaxTickets |-> 0]
  /\ web = [q \in Clients |-> NoWeb]

\* The steps a request takes by itself once it has begun.
WebStep(q) ==
  \/ PurgeExpired(q) \/ IssueSession(q) \/ FindSubject(q) \/ InsertSubject(q) \/ LookAgain(q) \/ SignOut(q)
  \/ \E s \in Subjects, b \in BaseNames : Exchange(q, s, b)
  \/ \E p \in Passwords : SetPasswordHash(q, p)
  \/ \E i \in 1..MaxAccounts : DeleteUser(q, i) \/ FindTarget(q, i)
  \/ \E n \in CreatedNames, p \in Passwords, e \in BOOLEAN : CreateUser(q, n, p, e)
  \/ ExchangeFails(q) \/ StoreFails(q)

WebNext ==
  \/ \E q \in Clients :
       \/ \E n \in CreatedNames, p \in Passwords, e \in BOOLEAN : PasswordLogin(q, n, p, e)
       \/ \E d \in BOOLEAN : BeginLogin(q, d)
       \/ \E t \in 1..MaxTickets, b \in BOOLEAN : Callback(q, t, b)
       \/ \E t \in 1..MaxTokens : Authenticate(q, t) \/ Logout(q, t)
       \/ OperatorActs(q) \/ WebStep(q)
  \/ \E i \in 1..MaxPending : TicketExpires(i)
  \/ \E s \in webSessions : SessionExpires(s)

\* The executor runs a request whose statement has returned.
FairWeb == \A q \in Clients : WF_webVars(WebStep(q))
WebSpec == WebInit /\ [][WebNext]_webVars /\ FairWeb

----------------------------------------------------------------------------
\* Every variable has its type, and the pending logins are bounded.
WebTypeOK ==
  /\ \A i \in DOMAIN accounts :
       /\ i \in 1..accountCount
       /\ accounts[i].source = "oidc" <=> accounts[i].subject # NoText
  /\ Len(tickets) <= MaxPending
  /\ \A s \in webSessions : s.token \in 1..tokenCount

\* No session outlives its account, whatever login was under way when the
\* account was deleted.
SessionsHaveAccounts == \A s \in webSessions : s.user \in DOMAIN accounts

\* Concurrent first logins of one subject end in one account.
OneAccountPerSubject ==
  \A i, j \in DOMAIN accounts : i # j =>
    /\ accounts[i].name # accounts[j].name
    /\ accounts[i].subject = NoText \/ accounts[i].subject # accounts[j].subject

\* A login that came back from the provider ends in the account of the subject
\* the provider named, also when its name was taken or another login won.
LoginLandsOnItsSubject ==
  \A s \in webSessions : s.subject # NoText => accounts[s.user].subject = s.subject

\* pending.rs: "Single use: a replayed state finds nothing the second time."
TicketsAreSingleUse == \A t \in 1..MaxTickets : ticketUses[t] <= 1

\* password.rs: the acting session outlives the change of its own password; a
\* request that deletes an account, too, leaves its own session alone.
OwnSessionIsKept ==
  [][\A q \in Clients : web[q].token # 0 /\ web'[q] # web[q] =>
       \A s \in webSessions :
         s.token = web[q].token /\ s.user = web[q].actor => s \in webSessions']_webVars

\* Every request ends: in particular the search for a free name.
WebRequestEnds == \A q \in Clients : []<>(web[q].at = "idle")

(* What the web store promises: sessions belong to accounts, a subject has *)
(* one account and lands on it, a ticket is used once, and a password      *)
(* change keeps the session that made it.                                  *)
SessionContract ==
    /\ [](/\ WebTypeOK /\ SessionsHaveAccounts /\ OneAccountPerSubject
          /\ LoginLandsOnItsSubject /\ TicketsAreSingleUse)
    /\ OwnSessionIsKept
============================================================================
