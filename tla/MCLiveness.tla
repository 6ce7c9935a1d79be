----------------------------- MODULE MCLiveness -----------------------------
(***************************************************************************)
(* What must happen in the end, for TLC: the event broadcaster, the chat   *)
(* with the assistant and the live notifications of a tab.  They share no  *)
(* state; `part` is chosen in the initial state and says which one moves.  *)
(* The fairness of each is restated for its own behaviours only: it asks   *)
(* nothing of a part that rests.                                           *)
(***************************************************************************)
EXTENDS MCDockerEvents, Chat, Feed

VARIABLE part

chatOnly == <<hookVars, job>>
feedOnly == <<feedHookVars, subscribers, events, missed>>
liveVars == <<part, vars, sockVars, chatOnly, feedOnly>>

InPart(p, A) == part = p /\ UNCHANGED part /\ A

EventsMove(A) == InPart("events", UNCHANGED <<sockVars, chatOnly, feedOnly>> /\ A)
ChatMoves(A)  == InPart("chat", UNCHANGED <<vars, feedOnly>> /\ A)
FeedMoves(A)  == InPart("feed", UNCHANGED <<vars, chatOnly>> /\ A)

LiveInit == part \in {"events", "chat", "feed"} /\ Init /\ ChatInit /\ FeedInit

LiveNext == EventsMove(Next) \/ ChatMoves(ChatNext) \/ FeedMoves(FeedNext)

\* Fairness of DockerEvents, ChatFairness and FeedFairness.
EventsFairly ==
  /\ WF_vars(EventsMove(Boot))
  /\ \A c \in Conns : /\ WF_vars(EventsMove(WhileUp(Ready(c) \/ Failed(c))))
                      /\ WF_vars(EventsMove(WhileUp(state[c] = "ended" /\ Closed(c))))
  /\ \A s \in Streams : /\ WF_vars(EventsMove(WhileUp(Attached(s) \/ Rejected(s))))
                        /\ WF_vars(EventsMove(WhileUp(Breaks(s))))
  /\ \A f \in Feeds : /\ WF_vars(EventsMove(WhileUp(RetryTimer(f))))
                      /\ SF_vars(EventsMove(WhileUp(FeedAttached(f))))
  /\ \A h \in Hosts : SF_vars(EventsMove(WhileUp(FeedReady(h))))

SocketsFairly ==
  /\ \A c \in Socks : /\ WF_chatVars(ChatMoves(ChatSocketStep(c)))
                      /\ WF_allFeedVars(FeedMoves(FeedPlatform(c)))
  /\ \A t \in Turns : WF_chatVars(ChatMoves(AnswerStep(t)))
  /\ WF_allFeedVars(FeedMoves(\E c \in Socks : FeedConnects(c)))

LiveSpec == LiveInit /\ [][LiveNext]_liveVars /\ EventsFairly /\ SocketsFairly

-----------------------------------------------------------------------------
\* The properties of each part, of the behaviours in which it moves.

\* A registered host is followed (dockerEvents.ts), a removed one let go.
HostsAreFollowed == part = "events" => EveryHostFollowed
HostsAreLetGo    == part = "events" => RemovedHostLetGo

\* The chat is in order, and its input is enabled again (useOllamaChat.ts).
ChatStaysInOrder == part = "chat" => ChatInOrder
ChatGoesOn       == part = "chat" => ChatSettles

\* A tab is told of what happens, and is connected again after a loss
\* (useDockerEventNotifications.tsx).
TabIsTold        == part = "feed" => FeedTellsAll
TabIsReconnected == part = "feed" => FeedComesBack

=============================================================================
