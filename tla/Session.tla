------------------------------- MODULE Session -------------------------------
(***************************************************************************)
(* What the command line remembers on the user's machine: the token cache  *)
(* that login fills and the context that holds the server and the selected *)
(* project.  Terminals run commands side by side; a file is read, emptied  *)
(* and written in three steps, and a command can be interrupted at any.    *)
(*                                                                         *)
(* Names of tenants and projects are sequences of labels, of which a dash  *)
(* joined the parts.  A token is its issuer and the login that got it; its *)
(* age is "closing" in the last 30 seconds before it expires.              *)
(***************************************************************************)
EXTENDS Integers, Sequences, FiniteSets

CONSTANTS
  Terminal,
  Issuer,          \* identity providers; each knows the user by one identity
  Server,          \* front-proxies
  NoServer, NoIssuer, NoTerminal, NoToken, NoSelection,
  Torn,            \* what a file is read as that is not whole
  Reach,           \* [Server -> [Issuer -> SUBSET [tenant, project]]]
  MaxCommands,     \* bound: commands run
  MaxAging,        \* bound: tokens whose end comes near
  MaxRedirects     \* bound: redirects that reach one login

Token == [issuer : Issuer, login : 0..MaxCommands]
Selected(s, place) == [place |-> place, url |-> [server |-> s, place |-> place]]
Selection == {Selected(s, place) : s \in Server, place \in UNION {Reach[s][i] : s \in Server, i \in Issuer}}

\* What the two files hold.
TokenFile == [Issuer -> Token \cup {NoToken}]
ContextFile == [server : Server \cup {NoServer}, selection : Selection \cup {NoSelection}]

ASSUME SessionAssumption ==
  /\ MaxCommands \in Nat /\ MaxAging \in Nat /\ MaxRedirects \in Nat
  /\ NoServer \notin Server /\ NoIssuer \notin Issuer
  /\ NoToken \notin Token /\ NoSelection \notin Selection
  /\ Torn \notin TokenFile \cup ContextFile

VARIABLES
  file,      \* "tokens" and "context": what is in the file, or Torn
  run,       \* [Terminal -> the command it runs]
  age,       \* [Token -> "fresh", "closing" or "expired"]
  listening, \* the login that holds the loopback port
  bindings,  \* what enable made
  kubeconfigs,
  commands,
  meant,     \* history: what the commands that ended meant to leave
  disturbed  \* history: files of which two writers overlapped, or one died

sessionVars == <<file, run, age, listening, bindings, kubeconfigs, commands, meant, disturbed>>

Empty(f) == IF f = "tokens" THEN [i \in Issuer |-> NoToken]
            ELSE [server |-> NoServer, selection |-> NoSelection]

\* An unreadable file is an empty one, never an error.
Load(f) == IF file[f] = Torn THEN Empty(f) ELSE file[f]

Idle == [kind |-> "none", step |-> "idle", on |-> "none", issuer |-> NoIssuer,
         server |-> NoServer, token |-> NoToken, taken |-> "none", read |-> Torn,
         fate |-> "whole", choice |-> NoSelection, seen |-> Torn,
         results |-> <<>>, stuck |-> 0, redirects |-> 0]

Set(p, r) == run' = [run EXCEPT ![p] = r]
Go(p, step) == Set(p, [run[p] EXCEPT !.step = step])
Quit(p) == Set(p, Idle)

-----------------------------------------------------------------------------
\* Credentials.  A token in its last 30 seconds is not used any more.
Usable(t) == t # NoToken /\ age[t] = "fresh"

CachedToken(i) == IF Usable(Load("tokens")[i]) THEN Load("tokens")[i] ELSE NoToken

\* Without an issuer, the one token there is; of several none.
AnyCachedToken ==
  LET found == {i \in Issuer : Usable(Load("tokens")[i])} IN
  IF \E i \in found : found = {i} THEN Load("tokens")[CHOOSE i \in found : TRUE] ELSE NoToken

Credential(i) == IF i = NoIssuer THEN AnyCachedToken ELSE CachedToken(i)

-----------------------------------------------------------------------------
\* Commands.
Start(p, r) ==
  /\ run[p] = Idle /\ commands < MaxCommands /\ commands' = commands + 1
  /\ Set(p, r)
  /\ UNCHANGED <<file, kubeconfigs, bindings, meant, disturbed, age>>

\* A login in the browser holds the port its redirect comes to; with a
\* password it gets its token at once.
Login(p, i, s) ==
  /\ listening = NoTerminal /\ listening' = p
  /\ Start(p, [Idle EXCEPT !.kind = "login", !.step = "browser", !.issuer = i,
                           !.server = s, !.token = [issuer |-> i, login |-> commands']])

PasswordLogin(p, i, s) ==
  /\ Start(p, [Idle EXCEPT !.kind = "login", !.step = "read", !.on = "tokens",
                           !.issuer = i, !.server = s, !.token = [issuer |-> i, login |-> commands']])
  /\ UNCHANGED listening

Logout(p, i) ==
  /\ Start(p, [Idle EXCEPT !.kind = "logout", !.step = "read", !.on = "tokens", !.issuer = i])
  /\ UNCHANGED listening

\* The address comes from the context before anything else happens.
Use(p, i) ==
  /\ Load("context").server # NoServer
  /\ Start(p, [Idle EXCEPT !.kind = "use", !.step = "credential", !.on = "context",
                           !.issuer = i, !.server = Load("context").server])
  /\ UNCHANGED listening

ClearSelection(p) ==
  /\ Start(p, [Idle EXCEPT !.kind = "use", !.step = "read", !.on = "context"])
  /\ UNCHANGED listening

Kubeconfig(p, i) ==
  /\ Load("context").server # NoServer
  /\ Start(p, [Idle EXCEPT !.kind = "kubeconfig", !.step = "credential", !.issuer = i,
                           !.server = Load("context").server])
  /\ UNCHANGED listening

\* The binary hands enable its defaults when it starts: the server and the one token.
MarketplaceDefaults(p) ==
  /\ Load("context").server # NoServer /\ AnyCachedToken # NoToken
  /\ Start(p, [Idle EXCEPT !.kind = "enable", !.step = "offering", !.taken = "fresh",
                           !.server = Load("context").server, !.token = AnyCachedToken])
  /\ UNCHANGED listening

LogoutAll(p) ==
  /\ run[p] = Idle /\ commands < MaxCommands /\ commands' = commands + 1
  /\ file' = [file EXCEPT !["tokens"] = Empty("tokens")]
  /\ meant' = [meant EXCEPT !["tokens"] = Empty("tokens")]
  /\ disturbed' = IF \E q \in Terminal : run[q].on = "tokens" /\ run[q].step \in {"truncate", "write"}
                  THEN disturbed \cup {"tokens"} ELSE disturbed
  /\ run' = [q \in Terminal |-> IF run[q].on = "tokens" /\ run[q].step = "write"
                                THEN [run[q] EXCEPT !.fate = "unlinked"] ELSE run[q]]
  /\ UNCHANGED <<age, listening, bindings, kubeconfigs>>

-----------------------------------------------------------------------------
\* The browser's redirects.  A handler puts its result in a channel with room
\* for one, and waits when there is no room.
MutantRoom == 0
Room == 1

Redirect(p, ok) ==
  LET r == run[p]
      awaits == r.step = "browser" /\ r.results = <<>>
  IN
  /\ listening = p /\ r.step \in {"browser", "exchange"} /\ r.redirects < MaxRedirects
  /\ Set(p, [r EXCEPT !.redirects = @ + 1,
                      !.results = IF awaits \/ Len(@) < Room THEN Append(@, ok) ELSE @,
                      !.stuck = IF awaits \/ Len(r.results) < Room THEN @ ELSE @ + 1])
  /\ UNCHANGED <<file, age, listening, bindings, kubeconfigs, commands, meant, disturbed>>

\* The first result counts; taking it makes room for a handler that waits.
BrowserLogin(p) ==
  LET r == run[p] IN
  /\ r.step = "browser" /\ r.results # <<>>
  /\ Set(p, [r EXCEPT !.step = IF Head(r.results) THEN "exchange" ELSE "failed",
                      !.results = IF r.stuck > 0 THEN Append(Tail(@), FALSE) ELSE Tail(@),
                      !.stuck = IF @ > 0 THEN @ - 1 ELSE 0])
  /\ UNCHANGED <<file, age, listening, bindings, kubeconfigs, commands, meant, disturbed>>

TimedOut(p) ==
  /\ run[p].step = "browser"
  /\ Go(p, "timed out")
  /\ UNCHANGED <<file, age, listening, bindings, kubeconfigs, commands, meant, disturbed>>

Exchange(p) ==
  /\ run[p].step = "exchange"
  /\ Go(p, "failed") \/ Go(p, "exchanged")
  /\ UNCHANGED <<file, age, listening, bindings, kubeconfigs, commands, meant, disturbed>>

\* Shutting down frees the port and then waits for every handler.
Shutdown(p) ==
  LET r == run[p] IN
  /\ r.step \in {"failed", "timed out", "exchanged"} /\ (listening = p \/ r.stuck = 0)
  /\ listening' = IF listening = p THEN NoTerminal ELSE listening
  /\ IF r.stuck > 0 THEN UNCHANGED run
     ELSE Set(p, IF r.step # "exchanged" THEN Idle
                 ELSE [Idle EXCEPT !.kind = "login", !.step = "read", !.on = "tokens",
                         !.issuer = r.issuer, !.server = r.server, !.token = r.token])
  /\ UNCHANGED <<file, age, bindings, kubeconfigs, commands, meant, disturbed>>

-----------------------------------------------------------------------------
\* Files.
ReadFile(p) ==
  LET r == run[p] IN
  /\ r.step = "read"
  /\ Set(p, [r EXCEPT !.step = "truncate", !.read = Load(r.on)])
  /\ disturbed' = IF \E q \in Terminal : run[q].on = r.on /\ run[q].step \in {"truncate", "write"}
                  THEN disturbed \cup {r.on} ELSE disturbed
  /\ UNCHANGED <<file, age, listening, bindings, kubeconfigs, commands, meant>>

Truncate(p) ==
  /\ run[p].step = "truncate"
  /\ file' = [file EXCEPT ![run[p].on] = Torn]
  /\ Go(p, "write")
  /\ UNCHANGED <<age, listening, bindings, kubeconfigs, commands, meant, disturbed>>

\* Mutant: use keeps the address of the project it left.
MutantWriteSelection(r, c) ==
  IF c.selection = NoSelection \/ r.choice = NoSelection THEN [c EXCEPT !.selection = r.choice]
  ELSE [c EXCEPT !.selection.place = r.choice.place]
\* Mutant: use starts from an empty context.
MutantForgetsServer(r, c) == [server |-> NoServer, selection |-> r.choice]

WriteSelection(r, c) == [c EXCEPT !.selection = r.choice]
StoreServer(r, c) == [c EXCEPT !.server = r.server]
StoreToken(r, c) == [c EXCEPT ![r.issuer] = IF r.kind = "login" THEN r.token ELSE NoToken]

Mutate(r, content) ==
  CASE r.on = "tokens" -> StoreToken(r, content)
    [] r.on = "context" /\ r.kind = "login" -> StoreServer(r, content)
    [] OTHER -> WriteSelection(r, content)

\* Of two that have both emptied the file the second writes over the first, and
\* the end of a longer content stays behind; a file that was removed meanwhile
\* is written by nobody.
WriteFile(p) ==
  LET r == run[p] IN
  /\ r.step = "write"
  /\ \E content \in CASE r.fate = "whole" -> {Mutate(r, r.read)}
                      [] r.fate = "overwrites" -> {Mutate(r, r.read), Torn}
                      [] r.fate = "unlinked" -> {file[r.on]} :
       file' = [file EXCEPT ![r.on] = content]
  /\ meant' = [meant EXCEPT ![r.on] = 
       CASE r.on = "tokens" -> [@ EXCEPT ![r.issuer] = IF r.kind = "login" THEN r.token ELSE NoToken]
         [] r.on = "context" /\ r.kind = "login" -> [@ EXCEPT !.server = r.server]
         [] OTHER -> [@ EXCEPT !.selection = r.choice]]
  /\ run' = [q \in Terminal |->
       IF q = p THEN IF r.kind = "login" /\ r.on = "tokens" /\ r.server # NoServer
                     THEN [Idle EXCEPT !.kind = "login", !.step = "read", !.on = "context",
                                       !.server = r.server]
                     ELSE Idle
       ELSE IF run[q].on = r.on /\ run[q].step = "write" /\ r.fate # "unlinked" /\ run[q].fate = "whole"
            THEN [run[q] EXCEPT !.fate = "overwrites"]
       ELSE run[q]]
  /\ UNCHANGED <<age, listening, bindings, kubeconfigs, commands, disturbed>>

-----------------------------------------------------------------------------
\* Requests.
RestConfig(p) ==
  LET r == run[p]
      t == Credential(r.issuer)
  IN
  /\ r.step = "credential"
  /\ IF t = NoToken THEN Quit(p)
     ELSE Set(p, [r EXCEPT !.step = "review", !.token = t, !.taken = age[t],
                           !.seen = <<file["tokens"], age>>])
  /\ UNCHANGED <<file, age, listening, bindings, kubeconfigs, commands, meant, disturbed>>

Answer(r) == Reach[r.server][r.token.issuer]

\* use: one of the projects the review lists.
Choose(p) ==
  LET r == run[p] IN
  /\ r.kind = "use" /\ r.step = "review"
  /\ \/ Quit(p)
     \/ \E place \in Answer(r) :
          Set(p, [Idle EXCEPT !.kind = "use", !.step = "read", !.on = "context",
                              !.choice = Selected(r.server, place)])
  /\ UNCHANGED <<file, age, listening, bindings, kubeconfigs, commands, meant, disturbed>>

ContextName(place) == place.tenant \o place.project

\* kubeconfig: the projects the review listed, and the credential as it is now.
WriteKubeconfig(p) ==
  LET r == run[p]
      t == Credential(r.issuer)
      names == {ContextName(place) : place \in Answer(r)}
  IN
  /\ r.kind = "kubeconfig" /\ r.step = "review"
  /\ Quit(p)
  /\ \/ UNCHANGED kubeconfigs
     \/ /\ t # NoToken /\ names # {}
        /\ \E pick \in [names -> Answer(r)] :
             /\ \A n \in names : ContextName(pick[n]) = n
             /\ kubeconfigs' = kubeconfigs \cup
                  {[token |-> t, server |-> r.server, steady |-> r.seen = <<file["tokens"], age>>,
                    contexts |-> [n \in names |-> Selected(r.server, pick[n]).url]]}
  /\ UNCHANGED <<file, age, listening, bindings, commands, meant, disturbed>>

\* enable: the offering is on the catalog ...
GetOffering(p) ==
  /\ run[p].step = "offering"
  /\ Quit(p) \/ Go(p, "workspace")
  /\ UNCHANGED <<file, age, listening, bindings, kubeconfigs, commands, meant, disturbed>>

\* ... and the selection says where the binding goes, and is told the user.
CurrentWorkspace(p) ==
  LET r == run[p]
      s == Load("context").selection
  IN
  /\ r.step = "workspace"
  /\ Quit(p)
  /\ bindings' = IF s = NoSelection THEN bindings
                 ELSE bindings \cup {[at |-> s.url, said |-> s.place]}
  /\ UNCHANGED <<file, age, listening, kubeconfigs, commands, meant, disturbed>>

-----------------------------------------------------------------------------
\* The user interrupts a command.
Interrupt(p) ==
  /\ run[p] # Idle
  /\ Quit(p)
  /\ listening' = IF listening = p THEN NoTerminal ELSE listening
  /\ disturbed' = IF run[p].step = "write" THEN disturbed \cup {run[p].on} ELSE disturbed
  /\ UNCHANGED <<file, age, bindings, kubeconfigs, commands, meant>>

\* Time passes.  A command presents a token within 30 seconds of reading it.
Age(t) ==
  /\ \E i \in Issuer : Load("tokens")[i] = t
     \/ \E p \in Terminal : run[p].token = t /\ run[p].step \notin {"browser", "exchange"}
  /\ Cardinality({u \in Token : age[u] # "fresh"} \cup {t}) <= MaxAging
  /\ \/ age[t] = "fresh" /\ age' = [age EXCEPT ![t] = "closing"]
     \/ /\ age[t] = "closing" /\ age' = [age EXCEPT ![t] = "expired"]
        /\ \A p \in Terminal : run[p].token = t => run[p].taken # "fresh"
  /\ UNCHANGED <<file, run, listening, bindings, kubeconfigs, commands, meant, disturbed>>

\* The files as earlier commands left them.
SessionInit ==
  /\ \E known \in SUBSET Issuer, s \in Server \cup {NoServer} :
       \E choice \in {NoSelection} \cup
            (IF s = NoServer THEN {} ELSE {Selected(s, x) : x \in UNION {Reach[s][i] : i \in Issuer}}) :
         file = [f \in {"tokens", "context"} |->
           IF f = "tokens"
           THEN [i \in Issuer |-> IF i \in known THEN [issuer |-> i, login |-> 0] ELSE NoToken]
           ELSE [server |-> s, selection |-> choice]]
  /\ run = [p \in Terminal |-> Idle]
  /\ age = [t \in Token |-> "fresh"]
  /\ listening = NoTerminal
  /\ bindings = {} /\ kubeconfigs = {} /\ commands = 0
  /\ meant = file /\ disturbed = {}

Browser(p) == BrowserLogin(p) \/ TimedOut(p) \/ Exchange(p) \/ Shutdown(p)
Step(p) ==
  \/ ReadFile(p) \/ Truncate(p) \/ WriteFile(p)
  \/ RestConfig(p) \/ Choose(p) \/ WriteKubeconfig(p) \/ GetOffering(p) \/ CurrentWorkspace(p)

LoginNext(p) ==
  \/ \E i \in Issuer, s \in Server \cup {NoServer} : Login(p, i, s)
  \/ \E ok \in BOOLEAN : Redirect(p, ok)
  \/ Browser(p) \/ Interrupt(p)

CommandNext(p) ==
  \/ \E i \in Issuer :
       Logout(p, i) \/ \E s \in Server \cup {NoServer} : PasswordLogin(p, i, s)
  \/ \E i \in Issuer \cup {NoIssuer} : Use(p, i) \/ Kubeconfig(p, i)
  \/ ClearSelection(p) \/ MarketplaceDefaults(p) \/ LogoutAll(p)
  \/ Step(p) \/ Interrupt(p)

SessionNext ==
  \/ \E p \in Terminal : LoginNext(p) \/ CommandNext(p)
  \/ \E t \in Token : Age(t)

SessionSpec == SessionInit /\ [][SessionNext]_sessionVars

-----------------------------------------------------------------------------
\* What the commands left is remembered (context.go:117-124, login.go:62-65):
\* unless two writers of a file overlapped or one was interrupted in the middle,
\* each command has changed only what it owns -- a login its issuer's token and
\* the server, use the selection -- and everything else is as the others left it.
RemembersLast ==
  \A f \in {"tokens", "context"} \ disturbed :
    (\A p \in Terminal : run[p].on # f \/ run[p].step # "write") => file[f] = meant[f]

\* Where a command acts is what it says (main.go:139-150, review.go:253-300):
\* whatever overlaps, is interrupted or changes, a binding is made in the
\* workspace of the project it was reported to be in, and a kubeconfig reaches
\* what its credential's user was listed, if the credential did not change
\* meanwhile and no two projects share a context name.
ActsWhereSaid ==
  /\ \A b \in bindings : \E s \in Server : b.at = Selected(s, b.said).url
  /\ \A k \in kubeconfigs :
       LET places == Reach[k.server][k.token.issuer] IN
       k.steady /\ (\A x, y \in places : ContextName(x) = ContextName(y) => x = y) =>
         {k.contexts[n] : n \in DOMAIN k.contexts} = {Selected(k.server, x).url : x \in places}

\* No request presents a token that has expired (login.go:110-122), although
\* it expires while commands run.
NeverPresentsExpired ==
  \A p \in Terminal :
    run[p].step \in {"review", "offering", "workspace"} => age[run[p].token] # "expired"

\* A login in the browser does not hang when it is over (login.go:430-481),
\* however often the browser calls back, but for this: a third redirect before
\* it is over, or a second one as it times out, waits for room forever, and the
\* login for it.
NoLoginHangs ==
  \A p \in Terminal :
    run[p].step \in {"failed", "timed out", "exchanged"} /\ run[p].stuck > 0 =>
      run[p].redirects > IF run[p].step = "timed out" THEN 1 ELSE 2

\* A login ends, and its token is not used beyond its time (login.go:110-122,
\* login.go:430-481), whatever other terminals do meanwhile.
SessionInv == NeverPresentsExpired /\ NoLoginHangs
=============================================================================
