--------------------------- MODULE PlaygroundChat ---------------------------
(***************************************************************************)
(* The chat playground of the web interface (features/playground): a       *)
(* conversation that the user extends, edits and cuts while answers are     *)
(* streamed into it.                                                       *)
(*                                                                         *)
(* Everything runs on one JavaScript thread, but the handlers of streams,   *)
(* clicks and renders alternate.  Stream handlers update the state (msgs)   *)
(* through updater functions and always write to the LAST message; click    *)
(* handlers compute the new conversation from what was rendered last        *)
(* (shown) and check isGenerating as it was then.  All requests share one   *)
(* reference to "the" event source and one completion flag.                *)
(*                                                                         *)
(* A piece of text is a chunk <<r, n, kind>>: the n-th event of request r,  *)
(* of kind "reason" (delta.reasoning_content), "text", "open" or "close"    *)
(* (delta.content that is text, <think> or </think>).  The server and       *)
(* sse.js are external.                                                    *)
(***************************************************************************)
EXTENDS Naturals, Sequences, SequencesExt

CONSTANTS
    MaxRequests,   \* bound on requests
    Scripts,       \* what a provider may send: sequences of kinds of chunks
    MaxMounts      \* bound on reloads and returns to the page

ASSUME PlaygroundAssumption ==
    MaxRequests \in Nat \ {0} /\ MaxMounts \in Nat

ASSUME ScriptsAssumption ==
    \A s \in Scripts : ToSet(s) \subseteq {"reason", "text", "open", "close"}

Requests == 1 .. MaxRequests
None == 0        \* no event source, no message

Error == <<<<0, 0, "error">>>>     \* the texts written by the program
Edited == <<<<0, 0, "edited">>>>   \* and by the user
Prompt == <<<<0, 0, "prompt">>>>

VARIABLES
    stream,      \* config.stream, from localStorage
    msgs,        \* the state messages
    shown,       \* messages as rendered last
    saved,       \* messages in localStorage
    dirty,       \* an update waits to be rendered
    generating,  \* isGenerating as rendered last
    source,      \* sseSourceRef: the request it belongs to
    complete,    \* isStreamCompleteRef
    editing,     \* editingMessageKey
    req,         \* the connection of each request
    out,         \* the chunks of a request that its handlers were given
    mounts,      \* times the page was left or reloaded
    cut,         \* a stream has ended without [DONE] (history)
    unguarded    \* a suggestion, an edit or, without streaming, anything was
                 \* submitted while a request was unanswered (history)

vars == <<stream, msgs, shown, saved, dirty, generating, source, complete,
          editing, req, out, mounts, cut, unguarded>>

Init ==
    /\ stream \in BOOLEAN
    /\ msgs = <<>> /\ shown = <<>> /\ saved = <<>>
    /\ dirty = FALSE /\ generating = FALSE
    /\ source = None /\ complete = FALSE
    /\ editing = <<>>
    /\ req = [r \in Requests |-> "new"]
    /\ out = [r \in Requests |-> <<>>]
    /\ mounts = 0 /\ cut = FALSE /\ unguarded = FALSE

-----------------------------------------------------------------------------
(***************************************************************************)
(* lib/message-utils.ts.                                                   *)
(***************************************************************************)

\* createUserMessage and createLoadingAssistantMessage.  The key names the
\* request that a message was made for.
UserMessage(r) ==
    [key |-> <<"user", r>>, status |-> "none", content |-> Prompt, reasoning |-> <<>>]

LoadingMessage(r) ==
    [key |-> <<"assistant", r>>, status |-> "loading", content |-> <<>>, reasoning |-> <<>>]

From(m) == m.key[1]
Unfinished(m) == m.status \in {"loading", "streaming"}

\* Text between <think> and the next </think>, or the end, is reasoning.
ThinkStep(acc, c) ==
    CASE acc.thinking /\ c[3] = "close" -> [acc EXCEPT !.thinking = FALSE]
      [] acc.thinking /\ c[3] # "close" -> [acc EXCEPT !.reasoning = Append(@, c)]
      [] ~acc.thinking /\ c[3] = "open" -> [acc EXCEPT !.thinking = TRUE]
      [] OTHER -> [acc EXCEPT !.visible = Append(@, c)]

NotThinking == [visible |-> <<>>, reasoning |-> <<>>, thinking |-> FALSE]

parseThinkTags(content) == FoldLeft(ThinkStep, NotThinking, content)

\* The raw content grows; reasoning found in it replaces the one so far.
processStreamingContent(m, c) ==
    LET full == Append(m.content, c)
        found == parseThinkTags(full).reasoning
    IN  [m EXCEPT !.content = full, !.reasoning = IF found # <<>> THEN found ELSE @]

\* The tags leave the content; earlier reasoning wins over theirs.
finalizeMessage(m) ==
    LET p == parseThinkTags(m.content)
    IN  [m EXCEPT !.content = p.visible,
                  !.reasoning = IF @ # <<>> THEN @ ELSE p.reasoning]

Completed(m) == [finalizeMessage(m) EXCEPT !.status = "complete"]
Failed(m) == [m EXCEPT !.content = Error, !.status = "error"]

LastIsAssistant(ms) == ms # <<>> /\ From(Last(ms)) = "assistant"

\* updateLastAssistantMessage(ms, updater) for the updated message m.
WithLast(ms, m) == [ms EXCEPT ![Len(ms)] = m]

\* Mutant: a message of which nothing has arrived stays as it is.
sanitizeStreaming(ms) ==
    LET stuck == {i \in DOMAIN ms : From(ms[i]) = "assistant" /\ ms[i].status = "streaming"}
    IN  IF stuck = {} THEN ms
        ELSE LET i == Max(stuck) IN [ms EXCEPT ![i] = Completed(ms[i])]

\* The last unfinished answer is completed with what it has, or has failed.
sanitizeMessagesOnLoad(ms) ==
    LET stuck == {i \in DOMAIN ms : From(ms[i]) = "assistant" /\ Unfinished(ms[i])}
    IN  IF stuck = {} THEN ms
        ELSE LET i == Max(stuck)
                 f == Completed(ms[i])
             IN  [ms EXCEPT ![i] = IF f.content # <<>> \/ f.reasoning # <<>> THEN f
                                   ELSE Failed(f)]

-----------------------------------------------------------------------------
(***************************************************************************)
(* Updates and renders (hooks/use-playground-state.ts).  updateMessages     *)
(* saves inside its updater, which React runs at once when no update is     *)
(* waiting, or while it renders.                                           *)
(***************************************************************************)

\* An update from a stream or a response: rendered later.
Update(new) ==
    /\ msgs' = new
    /\ dirty' = (dirty \/ LastIsAssistant(msgs))
    /\ saved' \in {saved} \cup (IF dirty THEN {} ELSE {new})
    /\ UNCHANGED <<shown, generating>>

\* An update of the last assistant message to m, if there is one.
UpdateLast(m) == Update(IF LastIsAssistant(msgs) THEN WithLast(msgs, m) ELSE msgs)

\* An update from a click is rendered, with all that wait, before anything
\* else happens.
Flush(new, src) ==
    /\ msgs' = new /\ shown' = new /\ saved' = new
    /\ dirty' = FALSE
    /\ generating' = (src # None)

\* React renders after an update of its state; the reference is read then, but
\* a change of it alone renders nothing.
Render ==
    /\ dirty
    /\ Flush(msgs, source)
    /\ UNCHANGED <<stream, source, complete, editing, req, out, mounts, cut, unguarded>>

-----------------------------------------------------------------------------
(***************************************************************************)
(* Submitting (index.tsx, hooks/use-chat-handler.ts).                      *)
(***************************************************************************)

Fresh(r) == req[r] = "new" /\ \A q \in Requests : q < r => req[q] # "new"

\* A request is unanswered, or its answer not yet on the screen.
Busy == dirty \/ generating \/ \E r \in Requests : req[r] = "open"

\* sendChat: a stream is opened and takes over the reference, whatever it
\* held; opening may fail at once.  Without streaming a request is posted.
sendChat(r, new) ==
    \/ /\ req' = [req EXCEPT ![r] = "open"]
       /\ source' = IF stream THEN r ELSE source
       /\ complete' = IF stream THEN FALSE ELSE complete
       /\ Flush(new, source')
    \/ /\ stream
       /\ req' = [req EXCEPT ![r] = "closed"]
       /\ source' = None
       /\ complete' = FALSE
       /\ Flush(WithLast(new, Failed(Last(new))), None)

Submit(r, new) ==
    /\ Fresh(r)
    /\ sendChat(r, new)
    /\ UNCHANGED <<stream, out, mounts, cut>>

Conversation(r) == shown \o <<UserMessage(r), LoadingMessage(r)>>

\* The input is disabled while an answer is generated ...
handleSubmit(r) ==
    /\ ~generating
    /\ Submit(r, Conversation(r))
    /\ unguarded' = (unguarded \/ (~stream /\ Busy))
    /\ UNCHANGED editing

\* ... the suggestions below it are not.
handleSuggestionClick(r) ==
    /\ Submit(r, Conversation(r))
    /\ unguarded' = (unguarded \/ Busy)
    /\ UNCHANGED editing

\* The buttons of a message: it shows an error or content and is not being edited.
HasActions(i) ==
    /\ i \in DOMAIN shown
    /\ shown[i].status = "error" \/ shown[i].content # <<>>
    /\ editing # shown[i].key
    /\ ~generating

handleRegenerateMessage(r, i) ==
    /\ HasActions(i)
    /\ From(shown[i]) = "assistant" /\ ~Unfinished(shown[i])
    /\ Submit(r, Append(SubSeq(shown, 1, i - 1), LoadingMessage(r)))
    /\ unguarded' = (unguarded \/ (~stream /\ Busy))
    /\ UNCHANGED editing

handleDeleteMessage(i) ==
    /\ HasActions(i)
    /\ Flush(RemoveAt(shown, i), source)
    /\ unguarded' = (unguarded \/ (~stream /\ Busy))
    /\ UNCHANGED <<stream, source, complete, editing, req, out, mounts, cut>>

\* Editing starts under the guard, and re-renders the page ...
handleEditMessage(i) ==
    /\ HasActions(i)
    /\ shown[i].content # <<>>
    /\ editing' = shown[i].key
    /\ Flush(msgs, source)
    /\ UNCHANGED <<stream, source, complete, req, out, mounts, cut, unguarded>>

handleEditCancel ==
    /\ editing # <<>>
    /\ editing' = <<>>
    /\ Flush(msgs, source)
    /\ UNCHANGED <<stream, source, complete, req, out, mounts, cut, unguarded>>

\* shown with the edited text at i.
WithEdit(i) == [shown EXCEPT ![i].content = Edited]

Editing(i) == i \in DOMAIN shown /\ shown[i].key = editing

\* ... but saving what was edited is not guarded.
saveEdit(i) ==
    /\ Editing(i)
    /\ editing' = <<>>
    /\ Flush(WithEdit(i), source)
    /\ unguarded' = (unguarded \/ Busy)
    /\ UNCHANGED <<stream, source, complete, req, out, mounts, cut>>

saveEditAndSubmit(r, i) ==
    /\ Editing(i)
    /\ From(shown[i]) = "user"
    /\ editing' = <<>>
    /\ Submit(r, Append(SubSeq(WithEdit(i), 1, i), LoadingMessage(r)))
    /\ unguarded' = (unguarded \/ Busy)

\* Mutant: the message is completed and the stream goes on.
stopWithoutClosing ==
    /\ generating
    /\ source' = None
    /\ Flush(IF LastIsAssistant(msgs) /\ Unfinished(Last(msgs))
             THEN WithLast(msgs, Completed(Last(msgs))) ELSE msgs, None)
    /\ UNCHANGED <<stream, complete, editing, req, out, mounts, cut, unguarded>>

\* The stop button replaces the send button while an answer is generated.
stopGeneration ==
    /\ generating
    /\ req' = IF source # None /\ req[source] = "open" THEN [req EXCEPT ![source] = "closed"] ELSE req
    /\ source' = None
    /\ Flush(IF LastIsAssistant(msgs) /\ Unfinished(Last(msgs))
             THEN WithLast(msgs, Completed(Last(msgs))) ELSE msgs, None)
    /\ UNCHANGED <<stream, complete, editing, out, mounts, cut, unguarded>>

-----------------------------------------------------------------------------
(***************************************************************************)
(* What a stream does (hooks/use-stream-request.ts).                       *)
(***************************************************************************)

Streaming(r) == stream /\ req[r] = "open"

\* The provider follows a script: its next chunk is of this kind.
MaySend(r, kind) ==
    \E s \in Scripts :
        /\ Len(s) > Len(out[r]) /\ s[Len(out[r]) + 1] = kind
        /\ \A n \in DOMAIN out[r] : out[r][n][3] = s[n]

chunk(r, kind) ==
    LET c == <<r, Len(out[r]) + 1, kind>>
        m == Last(msgs)
    IN
    /\ Streaming(r) /\ MaySend(r, kind)
    /\ out' = [out EXCEPT ![r] = Append(@, c)]
    /\ UpdateLast(
         IF m.status = "error" THEN m
         ELSE [(IF kind = "reason" THEN [m EXCEPT !.reasoning = Append(@, c)]
                ELSE processStreamingContent(m, c)) EXCEPT !.status = "streaming"])
    /\ UNCHANGED <<stream, source, complete, editing, req, mounts, cut, unguarded>>

\* Mutant: the reference is kept.
doneKeepsSource(r) ==
    /\ Streaming(r)
    /\ complete' = TRUE
    /\ req' = [req EXCEPT ![r] = "closed"]
    /\ UpdateLast(IF Unfinished(Last(msgs)) THEN Completed(Last(msgs)) ELSE Last(msgs))
    /\ UNCHANGED <<stream, source, editing, out, mounts, cut, unguarded>>

\* [DONE]: closeSource drops the reference, whoever it belongs to by now.
done(r) ==
    /\ Streaming(r)
    /\ complete' = TRUE
    /\ req' = [req EXCEPT ![r] = "closed"]
    /\ source' = None
    /\ UpdateLast(IF Unfinished(Last(msgs)) THEN Completed(Last(msgs)) ELSE Last(msgs))
    /\ UNCHANGED <<stream, editing, out, mounts, cut, unguarded>>

\* An event 'error', an HTTP status other than 200 or a chunk that cannot be
\* parsed.  It is ignored when some stream has set the completion flag.
handleError(r) ==
    /\ Streaming(r)
    /\ req' = [req EXCEPT ![r] = "closed"]
    /\ \/ /\ ~complete
          /\ source' = None
          /\ UpdateLast(Failed(Last(msgs)))
       \/ /\ complete
          /\ UNCHANGED <<source, msgs, dirty, saved, shown, generating>>
    /\ UNCHANGED <<stream, complete, editing, out, mounts, cut, unguarded>>

\* The connection ends with status 200 and without [DONE]: no handler acts.
endsSilently(r) ==
    /\ Streaming(r)
    /\ req' = [req EXCEPT ![r] = "closed"]
    /\ cut' = TRUE
    /\ UNCHANGED <<stream, msgs, shown, saved, dirty, generating, source, complete, editing, out, mounts, unguarded>>

(***************************************************************************)
(* sendNonStreamingChat: the response, whole, empty or an error.           *)
(***************************************************************************)

response(r) ==
    LET c == <<r, 1, "text">> IN
    /\ ~stream /\ req[r] = "open"
    /\ req' = [req EXCEPT ![r] = "closed"]
    /\ \/ /\ out' = [out EXCEPT ![r] = <<c>>]
          /\ UpdateLast(Completed([Last(msgs) EXCEPT !.content = <<c>>]))
          /\ UNCHANGED cut
       \/ /\ UpdateLast(Failed(Last(msgs)))
          /\ UNCHANGED <<out, cut>>
       \/ /\ cut' = TRUE
          /\ UNCHANGED <<out, msgs, shown, saved, dirty, generating>>
    /\ UNCHANGED <<stream, source, complete, editing, mounts, unguarded>>

\* The page is reloaded, or left and visited again.  What is still open goes
\* on, for nothing closes it, but its handlers cannot change the new page.  (After
\* a visit to another page they may still save once over what the new page has
\* saved; that is left out.)
mount ==
    /\ mounts < MaxMounts
    /\ mounts' = mounts + 1
    /\ req' = [r \in Requests |-> IF req[r] = "new" THEN "new" ELSE "detached"]
    /\ source' = None /\ complete' = FALSE /\ editing' = <<>>
    /\ Flush(sanitizeMessagesOnLoad(saved), None)
    /\ UNCHANGED <<stream, out, cut, unguarded>>

-----------------------------------------------------------------------------
Ends(r) == done(r) \/ handleError(r) \/ endsSilently(r) \/ response(r)

User ==
    \/ \E r \in Requests :
         \/ handleSubmit(r) \/ handleSuggestionClick(r)
         \/ \E i \in DOMAIN shown : handleRegenerateMessage(r, i) \/ saveEditAndSubmit(r, i)
    \/ \E i \in DOMAIN shown : handleDeleteMessage(i) \/ handleEditMessage(i) \/ saveEdit(i)
    \/ handleEditCancel \/ stopGeneration \/ mount

\* Nothing is promised once requests overlap: the user stops there (a bound).
Next ==
    \/ ~unguarded /\ User
    \/ Render
    \/ \E r \in Requests : Ends(r) \/ \E k \in {"reason", "text", "open", "close"} : chunk(r, k)

Spec == Init /\ [][Next]_vars

\* The browser renders what is waiting, and an upstream ends its answers.
FairSpec == Spec /\ WF_vars(Render) /\ \A r \in Requests : WF_vars(Ends(r))

-----------------------------------------------------------------------------
Tags == {"open", "close"}
Shown(m) == {c \in ToSet(m.content) \cup ToSet(m.reasoning) : c[3] \notin Tags}
Sent(r) == {c \in ToSet(out[r]) : c[3] \notin Tags}

\* A provider that sends reasoning both ways: the second way overwrites the first.
Mixed(r) == {"reason", "open"} \subseteq {c[3] : c \in ToSet(out[r])}

InOrder(cs) == \A i, j \in DOMAIN cs : i < j => cs[i][2] < cs[j][2]

(***************************************************************************)
(* An answer is what its own request was sent: no text of another request, *)
(* nothing missing, nothing twice or out of order, in the content or in the *)
(* reasoning (handleStreamUpdate, finalizeMessage), and after a reload at   *)
(* least the first part of it.  Not promised once the user submitted a      *)
(* suggestion or an edit while an answer was generated, for those are not   *)
(* guarded, nor when a provider uses reasoning_content and <think> at once. *)
(***************************************************************************)
FaithfulAnswer ==
    ~unguarded => \A i \in DOMAIN msgs :
        LET m == msgs[i]
            r == m.key[2]
        IN  From(m) = "assistant" /\ m.status # "error" /\ m.content # Edited /\ ~Mixed(r) =>
              /\ Shown(m) \subseteq Sent(r)
              /\ InOrder(m.content) /\ InOrder(m.reasoning)
              /\ \A c, d \in Sent(r) : c[2] < d[2] /\ d \in Shown(m) => c \in Shown(m)
              /\ req[r] # "detached" => Shown(m) = Sent(r)

(***************************************************************************)
(* The user is never left with a spinner that nothing can end: an answer    *)
(* that is not finished is the last message, and its stream is open or the  *)
(* stop button is there.  Holds after a reload too (sanitizeMessagesOnLoad).*)
(* Only with streaming: sendNonStreamingChat returns without an end of the  *)
(* message when the response has no choices, and there is no stop button.   *)
(***************************************************************************)
NeverStuck ==
    stream /\ ~unguarded => \A i \in DOMAIN msgs :
        Unfinished(msgs[i]) => i = Len(msgs) /\ (req[msgs[i].key[2]] = "open" \/ generating)

(***************************************************************************)
(* Every answer comes to an end on the screen: no message is unfinished and *)
(* the page no longer says that it generates, unless the stream was cut off *)
(* without [DONE] (the user has to stop it) or requests overlapped.        *)
(***************************************************************************)
AnswerSettles ==
    (\E r \in Requests : req[r] = "open") ~>
        \/ ~generating /\ \A i \in DOMAIN shown : ~Unfinished(shown[i])
        \/ cut \/ unguarded

TypeOK ==
    /\ stream \in BOOLEAN /\ dirty \in BOOLEAN /\ generating \in BOOLEAN
    /\ complete \in BOOLEAN /\ cut \in BOOLEAN /\ unguarded \in BOOLEAN
    /\ source \in Requests \cup {None}
    /\ req \in [Requests -> {"new", "open", "closed", "detached"}]
    /\ mounts \in 0 .. MaxMounts
    /\ \A ms \in {msgs, shown, saved} : \A i \in DOMAIN ms :
          /\ ms[i].key \in {"user", "assistant"} \X Requests
          /\ ms[i].status \in {"none", "loading", "streaming", "complete", "error"}
=============================================================================
