-------------------------------- MODULE Chat --------------------------------
(***************************************************************************)
(* The AI assistant: the chat drawer of AppLayout.tsx and its hook         *)
(* useOllamaChat in the browser, handleChat and runOllamaStream of         *)
(* apps/server/src/ws.ts, and the answers streamed from Ollama.  One       *)
(* socket carries turn after turn; the chat may be cleared in the middle   *)
(* of any of them.                                                         *)
(***************************************************************************)
EXTENDS Sockets

CONSTANTS
  NoChat,     \* no socket yet, or none since the chat was cleared
  MaxTurns,   \* bound: questions asked
  MaxTokens   \* bound: tokens of one answer

ASSUME ChatAssumption == NoChat \notin Socks /\ MaxTurns \in Nat /\ MaxTokens \in Nat

VARIABLES
  shown,      \* the answers in `messages`, each behind its question
  streaming,  \* state: the input is disabled
  chatRef,    \* wsRef.current
  opening,    \* per socket, the turn its onopen sends; 0: none
  turns,      \* questions asked so far
  job,        \* per turn, the answer in preparation on the server
  stale,      \* history: an abandoned socket's error ended another one's turn
  crashed     \* a token found no message to go to

chatVars == <<sockVars, shown, streaming, chatRef, opening, turns, job, stale, crashed>>
hookVars == <<shown, streaming, chatRef, opening, turns, stale, crashed>>

Turns == 1 .. MaxTurns
Question(t) == [type |-> "message", turn |-> t]
Token(t, i) == [type |-> "token", turn |-> t, at |-> i]
Done(t)     == [type |-> "done", turn |-> t]
Error(t)    == [type |-> "error", turn |-> t]

ChatTypeOK ==
  /\ SocketsTypeOK
  /\ shown \in Seq([turn : Turns, tokens : Seq([turn : Turns, at : 1 .. MaxTokens])])
  /\ streaming \in BOOLEAN /\ stale \in BOOLEAN /\ crashed \in BOOLEAN
  /\ chatRef \in Socks \cup {NoChat}
  /\ opening \in [Socks -> 0 .. MaxTurns]
  /\ turns \in 0 .. MaxTurns
  /\ job \in [Turns -> [sock : Socks \cup {NoChat}, given : 0 .. MaxTokens,
                        phase : {"none", "context", "streaming", "over"}]]

ChatInit ==
  /\ SocketsInit
  /\ shown = <<>> /\ streaming = FALSE /\ chatRef = NoChat
  /\ opening = [c \in Socks |-> 0]
  /\ turns = 0
  /\ job = [t \in Turns |-> [sock |-> NoChat, given |-> 0, phase |-> "none"]]
  /\ stale = FALSE /\ crashed = FALSE

-----------------------------------------------------------------------------
\* The drawer and its hook.

\* submit() and send(): the input is disabled while an answer is streaming.  An
\* open socket is used again, otherwise another one is made.
Ask(c) ==
  /\ ~streaming /\ ~crashed /\ turns < MaxTurns
  /\ turns' = turns + 1
  /\ streaming' = TRUE
  /\ shown' = Append(shown, [turn |-> turns', tokens |-> <<>>])
  /\ IF chatRef # NoChat /\ browser[chatRef] = "open"
     THEN /\ c = chatRef
          /\ upstream' = ToServer({c}, Question(turns'))
          /\ UNCHANGED <<browser, chatRef, opening>>
     ELSE /\ Constructed(c)
          /\ chatRef' = c
          /\ opening' = [opening EXCEPT ![c] = turns']
          /\ UNCHANGED upstream
  /\ UNCHANGED <<server, downstream, job, stale, crashed>>

ClearText ==    \* mutant: the socket is kept
  /\ ~crashed
  /\ shown' = <<>> /\ streaming' = FALSE
  /\ UNCHANGED <<sockVars, chatRef, opening, turns, job, stale, crashed>>

\* reset(), or the hook's cleanup when the layout is unmounted
Clear ==
  /\ ~crashed
  /\ IF chatRef = NoChat THEN UNCHANGED <<browser, upstream, downstream>>
     ELSE browser' = AfterClose(chatRef) /\ upstream' = UpAfterClose(chatRef) /\ downstream' = DownAfterClose(chatRef)
  /\ chatRef' = NoChat /\ shown' = <<>> /\ streaming' = FALSE
  /\ UNCHANGED <<server, opening, turns, job, stale, crashed>>

ChatOpensMute(c) ==    \* mutant: onopen sends no question
  /\ BrowserOpens(c)
  /\ UNCHANGED <<upstream, hookVars, job>>

\* onopen sends the question it was made with
ChatOpens(c) ==
  /\ BrowserOpens(c)
  /\ upstream' = ToServer({c}, Question(opening[c]))
  /\ UNCHANGED <<hookVars, job>>

\* onmessage: a token goes to the last message, whichever turn it is of
ChatReceives(c) ==
  /\ ~crashed
  /\ BrowserReceives(c)
  /\ LET m == Head(downstream[c]) IN
     \/ /\ m.type = "token" /\ shown # <<>>
        /\ shown' = [shown EXCEPT ![Len(shown)].tokens = Append(@, [turn |-> m.turn, at |-> m.at])]
        /\ UNCHANGED <<streaming, crashed>>
     \/ /\ m.type = "token" /\ shown = <<>>
        /\ crashed' = TRUE
        /\ UNCHANGED <<shown, streaming>>
     \/ /\ m.type \in {"done", "error"}
        /\ streaming' = FALSE
        /\ UNCHANGED <<shown, crashed>>
  /\ UNCHANGED <<browser, server, upstream, chatRef, opening, turns, job, stale>>

\* onerror, of whichever socket; there is no onclose
ChatCloses(c) ==
  /\ BrowserCloses(c)
  /\ \/ /\ MayRaiseError(c)
        /\ streaming' = FALSE
        /\ stale' = (stale \/ (streaming /\ c # chatRef))
     \/ /\ ~Unopened(c)
        /\ UNCHANGED <<streaming, stale>>
  /\ UNCHANGED <<shown, chatRef, opening, turns, job, crashed>>

-----------------------------------------------------------------------------
\* handleChat.

ChatAdmitted(c) == Upgraded(c) /\ UNCHANGED <<hookVars, job>>
ChatRejected(c) == (Upgrade(c) \/ UpgradeRefused(c)) /\ UNCHANGED <<hookVars, job>>

\* The message listener starts an answer, whatever else is running.
AnswerBegins(c) ==
  /\ ServerReceives(c)
  /\ job' = [job EXCEPT ![Head(upstream[c]).turn] = [sock |-> c, given |-> 0, phase |-> "context"]]
  /\ UNCHANGED <<browser, server, downstream, hookVars>>

\* Messages for a socket that is not open are not sent.
Say(c, m) == downstream' = IF server[c] = "open" THEN ToBrowser(c, m) ELSE downstream

\* buildInfraContext() resolves, and fetch() to Ollama
ContextBuilt(t) ==
  /\ job[t].phase = "context"
  /\ job' = [job EXCEPT ![t].phase = "streaming"]
  /\ UNCHANGED <<sockVars, hookVars>>

\* The next token; a socket no longer open ends the loop.
Streams1(t) ==
  /\ job[t].phase = "streaming" /\ job[t].given < MaxTokens
  /\ IF server[job[t].sock] = "open"
     THEN job' = [job EXCEPT ![t].given = @ + 1]
     ELSE job' = [job EXCEPT ![t].phase = "over"]
  /\ Say(job[t].sock, Token(t, job[t].given + 1))
  /\ UNCHANGED <<browser, server, upstream, hookVars>>

\* The loop ends.
Answered(t) ==
  /\ job[t].phase = "streaming"
  /\ job' = [job EXCEPT ![t].phase = "over"]
  /\ Say(job[t].sock, Done(t))
  /\ UNCHANGED <<browser, server, upstream, hookVars>>

\* No model is set, Docker or Ollama failed, or Ollama took five minutes.
AnswerFails(t) ==
  /\ job[t].phase \in {"context", "streaming"}
  /\ job' = [job EXCEPT ![t].phase = "over"]
  /\ Say(job[t].sock, Error(t))
  /\ UNCHANGED <<browser, server, upstream, hookVars>>

ChatGone(c) == ServerClosed(c) /\ UNCHANGED <<hookVars, job>>
ChatLost(c) == Drop(c) /\ UNCHANGED <<hookVars, job>>

-----------------------------------------------------------------------------
ChatSocketStep(c) ==
  \/ ChatOpens(c) \/ ChatReceives(c) \/ ChatCloses(c)
  \/ ChatAdmitted(c) \/ ChatRejected(c) \/ ChatGone(c) \/ AnswerBegins(c)
AnswerStep(t) == ContextBuilt(t) \/ Streams1(t) \/ Answered(t) \/ AnswerFails(t)

ChatNext ==
  \/ Clear
  \/ \E c \in Socks : Ask(c) \/ ChatSocketStep(c) \/ ChatLost(c)
  \/ \E t \in Turns : AnswerStep(t)

\* Both ends handle what arrives, and the five minutes end every answer; nobody
\* has to ask, to clear or to cut the connection.
ChatFairness ==
  /\ \A c \in Socks : WF_chatVars(ChatSocketStep(c))
  /\ \A t \in Turns : WF_chatVars(AnswerStep(t))

ChatSpec == ChatInit /\ [][ChatNext]_chatVars /\ ChatFairness

-----------------------------------------------------------------------------
\* Every answer stands below its own question, its tokens in order and none
\* left out, however often the chat is cleared in between; unless the error of
\* an abandoned connection freed the input while an answer was still coming.
AnswersKeepApart ==
  ~stale => \A i \in DOMAIN shown :
              shown[i].tokens = [k \in DOMAIN shown[i].tokens |-> [turn |-> shown[i].turn, at |-> k]]

\* The drawer waits for one answer at a time: no second one is prepared for a
\* connection the page still uses; with the same exception.
OneAnswerAtATime ==
  ~stale => \A t, u \in Turns :
    /\ job[t].phase \in {"context", "streaming"} /\ job[u].phase \in {"context", "streaming"}
    /\ browser[job[t].sock] = "open" /\ browser[job[u].sock] = "open"
    => t = u

\* A token never meets an empty chat, which would throw while rendering; with
\* the same exception.
TokenHasMessage == ~stale => ~crashed

\* The input is not disabled for ever: an answer comes to its end, or the error
\* does, unless the connection was lost without an error event.
ChatSettles == streaming ~> (~streaming \/ (chatRef # NoChat /\ browser[chatRef] = "closed"))

\* A conversation stays in order (useOllamaChat.ts, ws.ts handleChat).
ChatInOrder == AnswersKeepApart /\ OneAnswerAtATime /\ TokenHasMessage

=============================================================================
