----------------------------- MODULE Assistant ------------------------------
(***************************************************************************)
(* The chat assistant: the turns the server runs, each answering from the  *)
(* knowledge base or by tool calls and a streamed final answer, and the    *)
(* page that sends them, follows their events and switches sessions.       *)
(*                                                                         *)
(* A turn is known by its number; an answer is the sequence of its         *)
(* fragments 1..Fragments, which the model may stream in full or in part.  *)
(* Events that leave the text alone (user_saved, tool steps, sources) are  *)
(* left out.                                                               *)
(***************************************************************************)
EXTENDS Integers, Sequences, FiniteSets, SequencesExt

CONSTANTS
    Sessions,     \* chat sessions of the user
    MaxTurns,     \* bound of the model: messages sent
    MaxLoads,     \* bound of the model: sessions selected
    Fragments,    \* chunks of a final answer
    ToolIters,    \* MAX_TOOL_ITERS
    LimiterBurst  \* capacity of the assistant's token bucket

NoSession == ""
\* The page has no session before the first message; a turn has a round to answer in.
Parameters ==
    /\ NoSession \notin Sessions
    /\ {MaxTurns, MaxLoads, Fragments, LimiterBurst} \subseteq Nat /\ ToolIters \in Nat \ {0}

VARIABLES
    chat,      \* sa_ai_chat_message: per session the messages in order
    turn,      \* the turns so far: session, where they are, tool rounds, what was streamed
    wire,      \* per turn: the events sent and not yet received
    tokens,    \* the user's bucket
    selected,  \* the page: its session (NoSession before the first), its bubbles
    bubbles,
    sending, current,  \* the turn it is sending (0: none), streamTokenRef
    loads      \* getMessages calls under way: session, and the rows once answered

server == <<chat, turn, wire, tokens>>
page == <<selected, bubbles, sending, current, loads>>
vars == <<chat, turn, wire, tokens, selected, bubbles, sending, current, loads>>
Turns == DOMAIN turn
Full == [k \in 1..Fragments |-> k]
User(t) == [turn |-> t, role |-> "user", text |-> <<>>]
Reply(t, text) == [turn |-> t, role |-> "assistant", text |-> text]
Said(session, m) == chat' = [chat EXCEPT ![session] = Append(@, m)]
Emit(t, events) == wire' = [wire EXCEPT ![t] = @ \o events]
Chunk(text) == [type |-> "chunk", text |-> text]
Event(type) == [type |-> type, text |-> <<>>]
Done(text) == [type |-> "done", text |-> text]
Goto(t, at) == turn' = [turn EXCEPT ![t].at = at]

Init ==
    /\ chat = [s \in Sessions |-> <<>>] /\ turn = <<>> /\ wire = <<>> /\ tokens = LimiterBurst
    /\ selected = NoSession /\ bubbles = <<>> /\ sending = 0 /\ current = 0 /\ loads = <<>>

-----------------------------------------------------------------------------
(* The server *)

\* send_message: ownership, then the quota, then the knowledge base; a hit is answered
\* from it (hit), else and when it fails the turn is a tool chat.
Accept(t, hit) ==
    /\ turn[t].at = "sent"
    /\ IF tokens = 0 THEN Goto(t, "refused") /\ UNCHANGED tokens
       ELSE /\ turn' = [turn EXCEPT ![t].at = "accepted", ![t].cited = hit]
            /\ tokens' = tokens - 1
    /\ UNCHANGED <<chat, wire, page>>

\* _Bucket.allow adds what the elapsed time is worth, up to the capacity.
Refill ==
    /\ tokens < LimiterBurst /\ tokens' = tokens + 1
    /\ UNCHANGED <<chat, turn, wire, page>>

\* The question is stored before anything can fail.
SaveQuestion(t) ==
    /\ turn[t].at = "accepted"
    /\ Said(turn[t].session, User(t))
    /\ IF turn[t].cited THEN Emit(t, <<Chunk(Full)>>) ELSE UNCHANGED wire
    /\ Goto(t, IF turn[t].cited THEN "answered" ELSE "thinking")
    /\ UNCHANGED <<tokens, page>>

\* mutant: one round too many
ToolRoundMore(t) ==
    /\ turn[t].at = "thinking"
    /\ IF turn[t].rounds < ToolIters
       THEN /\ turn' = [turn EXCEPT ![t].rounds = @ + 1]
            /\ UNCHANGED wire
       ELSE Goto(t, "over") /\ Emit(t, <<Event("error"), Done(<<>>)>>)
    /\ UNCHANGED <<chat, tokens, page>>

\* The model wants a tool, which answers or fails into its result; at the last round the
\* turn gives up.
ToolRound(t) ==
    /\ turn[t].at = "thinking"
    /\ IF turn[t].rounds + 1 < ToolIters
       THEN /\ turn' = [turn EXCEPT ![t].rounds = @ + 1]
            /\ UNCHANGED wire
       ELSE Goto(t, "over") /\ Emit(t, <<Event("error"), Done(<<>>)>>)
    /\ UNCHANGED <<chat, tokens, page>>

\* The model answers: the final text is asked for once more, as a stream.
FinalAnswer(t) ==
    /\ turn[t].at = "thinking" /\ Goto(t, "streaming")
    /\ UNCHANGED <<chat, wire, tokens, page>>

StreamChunk(t) ==
    /\ turn[t].at = "streaming" /\ Len(turn[t].parts) < Fragments
    /\ turn' = [turn EXCEPT ![t].parts = Append(@, Len(@) + 1)]
    /\ Emit(t, <<Chunk(<<Len(turn[t].parts) + 1>>)>>)
    /\ UNCHANGED <<chat, tokens, page>>

\* The stream is complete, or it breaks and the answer already known is sent whole.
StreamEnds(t) ==
    /\ turn[t].at = "streaming"
    /\ Emit(t, IF turn[t].parts = Full THEN <<>> ELSE <<Chunk(Full)>>)
    /\ turn' = [turn EXCEPT ![t].at = "answered", ![t].broken = @ \/ turn[t].parts \notin {<<>>, Full}]
    /\ UNCHANGED <<chat, tokens, page>>

\* mutant: the answer is announced before it is stored
StoreLate(t) ==
    /\ turn[t].at = "answered"
    /\ Emit(t, <<Done(Full)>>) /\ Goto(t, "over")
    /\ UNCHANGED <<chat, tokens, page>>

\* The answer is stored, then announced.
StoreAnswer(t) ==
    /\ turn[t].at = "answered"
    /\ Said(turn[t].session, Reply(t, Full))
    /\ Emit(t, <<Done(Full)>>) /\ Goto(t, "over")
    /\ UNCHANGED <<tokens, page>>

\* mutant: the failure of the model ends the generator without a word
TurnFailsSilent(t) ==
    /\ turn[t].at \in {"thinking", "answered"}
    /\ Goto(t, "over")
    /\ UNCHANGED <<chat, wire, tokens, page>>

\* mutant: a failure on the knowledge path falls back to the tool chat
TurnFailsOver(t) ==
    /\ turn[t].at \in {"thinking", "answered"}
    /\ IF turn[t].cited THEN turn' = [turn EXCEPT ![t].at = "accepted", ![t].cited = FALSE] /\ UNCHANGED wire
       ELSE Goto(t, "over") /\ Emit(t, <<Event("error"), Done(<<>>)>>)
    /\ UNCHANGED <<chat, tokens, page>>

\* The model or the store fails inside the turn; on the knowledge path nothing catches it.
TurnFails(t) ==
    /\ turn[t].at \in {"thinking", "answered"}
    /\ Emit(t, IF turn[t].cited THEN <<>> ELSE <<Event("error"), Done(<<>>)>>)
    /\ Goto(t, "over")
    /\ UNCHANGED <<chat, tokens, page>>

Serve(t) == SaveQuestion(t) \/ ToolRound(t) \/ FinalAnswer(t) \/ StreamChunk(t) \/ StreamEnds(t)
            \/ StoreAnswer(t) \/ TurnFails(t) \/ \E hit \in BOOLEAN : Accept(t, hit)

-----------------------------------------------------------------------------
(* The page *)

Bubble(t, role, text, live) == [turn |-> t, role |-> role, text |-> text, live |-> live]

\* send: guarded by sending only; a page without a session makes one first.
Send(s) ==
    /\ sending = 0 /\ Len(turn) < MaxTurns
    /\ s = selected \/ (selected = NoSession /\ chat[s] = <<>>)
    /\ turn' = Append(turn, [session |-> s, at |-> "sent", rounds |-> 0, parts |-> <<>>,
                             cited |-> FALSE, broken |-> FALSE])
    /\ wire' = Append(wire, <<>>)
    /\ sending' = Len(turn) + 1 /\ current' = Len(turn) + 1 /\ selected' = s
    /\ bubbles' = bubbles \o <<Bubble(Len(turn) + 1, "user", <<>>, TRUE),
                               Bubble(Len(turn) + 1, "assistant", <<>>, TRUE)>>
    /\ UNCHANGED <<chat, tokens, loads>>

\* selectSession: also while a turn is streaming.
Select(s) ==
    /\ Len(loads) < MaxLoads
    /\ selected' = s /\ bubbles' = <<>>
    /\ loads' = Append(loads, [session |-> s, at |-> "asked", rows |-> <<>>])
    /\ UNCHANGED <<server, sending, current>>

\* list_messages answers with what is stored by then.
LoadAnswered(i) ==
    /\ loads[i].at = "asked"
    /\ loads' = [loads EXCEPT ![i].at = "answered", ![i].rows = chat[loads[i].session]]
    /\ UNCHANGED <<server, selected, bubbles, sending, current>>

\* The rows replace whatever the page shows.
LoadArrives(i) ==
    /\ loads[i].at = "answered"
    /\ bubbles' = [k \in DOMAIN loads[i].rows |->
                      Bubble(loads[i].rows[k].turn, loads[i].rows[k].role, loads[i].rows[k].text, FALSE)]
    /\ loads' = [loads EXCEPT ![i].at = "shown", ![i].rows = <<>>]
    /\ UNCHANGED <<server, selected, sending, current>>

\* mutant: a fragment goes to the last bubble
PatchLast(t, event) ==
    IF event.type # "chunk" \/ bubbles = <<>> THEN bubbles
    ELSE [bubbles EXCEPT ![Len(bubbles)].text = @ \o event.text]

\* The reducer finds the bubble of the turn by its id; done fills one that got nothing.
Patch(t, event) ==
    [k \in DOMAIN bubbles |->
        IF ~(bubbles[k].live /\ bubbles[k].turn = t /\ bubbles[k].role = "assistant") THEN bubbles[k]
        ELSE CASE event.type = "chunk" -> [bubbles[k] EXCEPT !.text = @ \o event.text]
               [] event.type = "done" /\ bubbles[k].text = <<>> -> [bubbles[k] EXCEPT !.text = event.text]
               [] OTHER -> bubbles[k]]

\* An event arrives; those of an earlier turn than the current one are dropped.
Receive(t) ==
    /\ wire[t] # <<>> /\ sending = t
    /\ wire' = [wire EXCEPT ![t] = Tail(@)]
    /\ bubbles' = IF t = current THEN Patch(t, Head(wire[t])) ELSE bubbles
    /\ UNCHANGED <<chat, turn, tokens, selected, sending, current, loads>>

\* mutant: only a done event ends the sending
StreamOverDone(t) ==
    /\ sending = t /\ turn[t].at = "over" /\ wire[t] # <<>> /\ Head(wire[t]).type = "done"
    /\ sending' = 0 /\ wire' = [wire EXCEPT ![t] = <<>>]
    /\ UNCHANGED <<chat, turn, tokens, selected, bubbles, current, loads>>

\* The stream ends, is refused, or its connection breaks: send's finally.
StreamOver(t) ==
    /\ sending = t
    /\ turn[t].at \in {"over", "refused"} /\ wire[t] = <<>>
    /\ sending' = 0
    /\ UNCHANGED <<server, selected, bubbles, current, loads>>

Next ==
    \/ Refill
    \/ \E t \in Turns : Serve(t) \/ Receive(t) \/ StreamOver(t)
    \/ \E s \in Sessions : Send(s) \/ Select(s)
    \/ \E i \in DOMAIN loads : LoadAnswered(i) \/ LoadArrives(i)

\* A turn goes on and its events arrive; the reader's clicks are free.
Fairness == \A t \in 1..MaxTurns :
    WF_vars(t \in Turns /\ (Serve(t) \/ Receive(t) \/ StreamOver(t)))
Spec == Init /\ [][Next]_vars /\ Fairness

-----------------------------------------------------------------------------
TypeOK ==
    /\ Turns = 1..Len(turn) /\ DOMAIN wire = Turns /\ tokens \in 0..LimiterBurst
    /\ \A t \in Turns : turn[t].rounds < ToolIters /\ IsPrefix(turn[t].parts, Full)
    /\ selected \in Sessions \cup {NoSession} /\ sending \in {0, current} /\ current = Len(turn)

\* What is announced as done has been stored: a reader who reloads sees the answer that
\* was streamed to him, in the session he asked in.
DoneIsStored ==
    \A t \in Turns : \A i \in DOMAIN wire[t] :
        wire[t][i].type = "done" /\ wire[t][i].text # <<>> =>
            \E k \in DOMAIN chat[turn[t].session] :
                chat[turn[t].session][k] = Reply(t, wire[t][i].text)

\* In a session every answer follows its question, and no question is stored or answered
\* twice, however turns, retries and failures mix.
AnswersFollow ==
    \A s \in Sessions : \A k \in DOMAIN chat[s] :
        LET m == chat[s][k] IN
        /\ \A j \in DOMAIN chat[s] : chat[s][j].turn = m.turn /\ chat[s][j].role = m.role => j = k
        /\ m.role = "assistant" => \E j \in 1..k - 1 : chat[s][j] = User(m.turn)

\* No fragment ends up in a foreign bubble: whatever sessions were visited meanwhile, an
\* answer on the page, unless it broke off while streaming, is the stored one or a part of it.
ShownIsStored ==
    \A k \in DOMAIN bubbles :
        LET b == bubbles[k] IN
        b.role = "assistant" /\ ~turn[b.turn].broken => IsPrefix(b.text, Full)

\* A turn of the tool chat that ends has told the client so.
ToolTurnsEndDone ==
    \A t \in Turns : turn[t].at # "over" /\ turn'[t].at = "over" /\ ~turn[t].cited
       => wire'[t] # <<>> /\ Last(wire'[t]).type = "done"

\* The page never stays in the sending state: the next message can always be sent.
SendingEnds == sending # 0 ~> sending = 0

\* Server and page agree on what was said, by whom, and in which order.
ChatSound == TypeOK /\ DoneIsStored /\ AnswersFollow /\ ShownIsStored

=============================================================================
