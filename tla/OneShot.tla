------------------------------ MODULE OneShot ------------------------------
(***************************************************************************)
(* The one-shot AI answers: useOllamaStream, used by the diagnosis of a    *)
(* container and by the generation of a stack, with handleDiagnose,        *)
(* handleGenerateStack and runOllamaStream in apps/server/src/ws.ts.  Each *)
(* question has a connection of its own; asking again gives up the last.   *)
(***************************************************************************)
EXTENDS Sockets

CONSTANTS NoAsk,      \* no socket yet
          MaxAnswer   \* bound: tokens of one answer

ASSUME OneShotAssumption == NoAsk \notin Socks /\ MaxAnswer \in Nat

VARIABLES
  prompted,  \* the page sends a prompt when it is connected; a diagnosis does not
  askRef,    \* wsRef.current
  askStatus,    \* idle, connecting, streaming, done, error
  answer,    \* the tokens in `text`
  reply,     \* per socket, runOllamaStream and what is awaited before it
  tokens,    \* per socket, the tokens sent by the server
  lateError       \* history: an abandoned socket's error was taken for this one's

askVars == <<prompted, askRef, askStatus, answer, lateError>>
oneShotVars == <<sockVars, askVars, reply, tokens>>

Prompt     == [type |-> "prompt"]
Piece(c, i) == [type |-> "token", sock |-> c, at |-> i]
Whole      == [type |-> "done"]
Broken     == [type |-> "error"]

OneShotTypeOK ==
  /\ SocketsTypeOK
  /\ prompted \in BOOLEAN /\ lateError \in BOOLEAN
  /\ askRef \in Socks \cup {NoAsk}
  /\ askStatus \in {"idle", "connecting", "streaming", "done", "error"}
  /\ answer \in Seq([type : {"token"}, sock : Socks, at : 1 .. MaxAnswer])
  /\ reply \in [Socks -> {"none", "context", "streaming", "whole", "broken", "left"}]
  /\ tokens \in [Socks -> 0 .. MaxAnswer]

OneShotInit ==
  /\ SocketsInit
  /\ prompted \in BOOLEAN
  /\ askRef = NoAsk /\ askStatus = "idle" /\ answer = <<>> /\ lateError = FALSE
  /\ reply = [c \in Socks |-> "none"]
  /\ tokens = [c \in Socks |-> 0]

-----------------------------------------------------------------------------
\* start() of useOllamaStream: also while the last answer is still streaming,
\* for the button that starts a diagnosis is never disabled.
Start(c) ==
  /\ Unused(c)
  /\ prompted => askStatus \notin {"connecting", "streaming"}
  /\ askRef' = c /\ askStatus' = "connecting" /\ answer' = <<>> /\ lateError' = FALSE
  /\ IF askRef = NoAsk
     THEN browser' = [browser EXCEPT ![c] = "connecting"] /\ UNCHANGED <<upstream, downstream>>
     ELSE /\ browser' = [AfterClose(askRef) EXCEPT ![c] = "connecting"]
          /\ upstream' = UpAfterClose(askRef) /\ downstream' = DownAfterClose(askRef)
  /\ UNCHANGED <<server, prompted, reply, tokens>>

AskOpens(c) ==
  /\ BrowserOpens(c)
  /\ askStatus' = "streaming"
  /\ upstream' = IF prompted THEN ToServer({c}, Prompt) ELSE upstream
  /\ UNCHANGED <<prompted, askRef, answer, lateError, reply, tokens>>

AskReceives(c) ==
  /\ BrowserReceives(c)
  /\ LET m == Head(downstream[c]) IN
     \/ /\ m.type = "token"
        /\ answer' = Append(answer, m) /\ UNCHANGED askStatus
     \/ /\ m.type \in {"done", "error"}
        /\ askStatus' = m.type /\ UNCHANGED answer
  /\ UNCHANGED <<browser, server, upstream, prompted, askRef, lateError, reply, tokens>>

\* onerror, of whichever socket; there is no onclose
AskCloses(c) ==
  /\ BrowserCloses(c)
  /\ \/ /\ MayRaiseError(c)
        /\ askStatus' = IF askStatus = "done" THEN "done" ELSE "error"
        /\ lateError' = (lateError \/ (c # askRef /\ askStatus # "done"))
     \/ /\ ~Unopened(c)
        /\ UNCHANGED <<askStatus, lateError>>
  /\ UNCHANGED <<prompted, askRef, answer, reply, tokens>>

\* The cleanup when the page is left.
AskLeaves ==
  /\ askRef # NoAsk /\ Connected(askRef)
  /\ browser' = AfterClose(askRef) /\ upstream' = UpAfterClose(askRef) /\ downstream' = DownAfterClose(askRef)
  /\ UNCHANGED <<server, askVars, reply, tokens>>

-----------------------------------------------------------------------------
\* handleDiagnose and handleGenerateStack.

\* handleDiagnose begins at once, handleGenerateStack waits for a prompt.
AskAdmitted(c) ==
  /\ Upgraded(c)
  /\ reply' = [reply EXCEPT ![c] = IF prompted THEN "none" ELSE "context"]
  /\ UNCHANGED <<askVars, tokens>>

AskRejected(c) == (Upgrade(c) \/ UpgradeRefused(c)) /\ UNCHANGED <<askVars, reply, tokens>>

Prompted(c) ==
  /\ ServerReceives(c)
  /\ reply' = [reply EXCEPT ![c] = "streaming"]
  /\ UNCHANGED <<browser, server, downstream, askVars, tokens>>

\* inspect() and logs() of the container to be diagnosed
LogsRead(c) ==
  /\ reply[c] = "context"
  /\ reply' = [reply EXCEPT ![c] = "streaming"]
  /\ UNCHANGED <<sockVars, askVars, tokens>>

NextToken(c) ==
  /\ reply[c] = "streaming" /\ tokens[c] < MaxAnswer
  /\ IF server[c] = "open"
     THEN /\ tokens' = [tokens EXCEPT ![c] = @ + 1]
          /\ downstream' = ToBrowser(c, Piece(c, tokens'[c]))
          /\ UNCHANGED reply
     ELSE reply' = [reply EXCEPT ![c] = "left"] /\ UNCHANGED <<tokens, downstream>>
  /\ UNCHANGED <<browser, server, upstream, askVars>>

\* The stream ends, or something failed: the outcome is sent, and the socket is
\* closed, if it is still open.
Concluded(c, how, m) ==
  /\ reply' = [reply EXCEPT ![c] = IF server[c] = "open" THEN how ELSE "left"]
  /\ server' = [server EXCEPT ![c] = IF @ = "open" THEN "closing" ELSE @]
  /\ downstream' = IF server[c] # "open" \/ ToBrowser(c, m) = downstream THEN downstream
             ELSE [downstream EXCEPT ![c] = @ \o <<m, Bye>>]
  /\ UNCHANGED <<browser, upstream, askVars, tokens>>
Concludes(c) == reply[c] = "streaming" /\ Concluded(c, "whole", Whole)
Breaks1(c)   == reply[c] \in {"context", "streaming"} /\ Concluded(c, "broken", Broken)

AskGone(c) == ServerClosed(c) /\ UNCHANGED <<askVars, reply, tokens>>
AskLost(c) == Drop(c) /\ UNCHANGED <<askVars, reply, tokens>>

-----------------------------------------------------------------------------
OneShotNext ==
  \/ AskLeaves
  \/ \E c \in Socks :
       \/ Start(c) \/ AskOpens(c) \/ AskReceives(c) \/ AskCloses(c)
       \/ AskAdmitted(c) \/ AskRejected(c) \/ Prompted(c) \/ LogsRead(c)
       \/ NextToken(c) \/ Concludes(c) \/ Breaks1(c) \/ AskGone(c) \/ AskLost(c)

OneShotSpec == OneShotInit /\ [][OneShotNext]_oneShotVars

-----------------------------------------------------------------------------
\* The text is a beginning of one answer, that of the last question, its tokens
\* in order; and it is all of it when the status says done, which is when the
\* generated stack may be put into the editor.
TextOfLastAsk ==
  /\ \A i \in DOMAIN answer : answer[i] = Piece(askRef, i)
  /\ askStatus = "done" => reply[askRef] = "whole" /\ Len(answer) = tokens[askRef]

\* An error is the last question's own, unless an abandoned connection's error
\* came late; then the answer goes on arriving under a status of error.
ErrorIsOwn ==
  askStatus = "error" /\ ~lateError => reply[askRef] = "broken" \/ browser[askRef] = "closed"

\* What the page shows is the outcome of the last question (useOllamaStream.ts,
\* ws.ts runOllamaStream).
LastAskIsShown == TextOfLastAsk /\ ErrorIsOwn

=============================================================================
