----------------------------- MODULE ToolParser -----------------------------
(***************************************************************************)
(* The streaming parser of tool calls and reasoning, for the GLM-4.7       *)
(* format.  The tokens of one answer arrive in deltas.  The text of a      *)
(* delta may lag behind its token ids, because the detokenizer holds       *)
(* characters back, and lacks the text of a final stop token.  The scanner *)
(* ties the special token ids to places in the text, the lexer finds the   *)
(* other tags, and a table of transitions turns both into events.          *)
(*                                                                         *)
(* Text is a sequence of characters <<c, 0>> and of halves <<t, 1>> and    *)
(* <<t, 2>> of tags: a tag can be cut between two chunks, and can be       *)
(* spelled by ordinary tokens.  A token is an item: the terminal its id    *)
(* stands for, or TEXT, and its text.                                      *)
(***************************************************************************)
EXTENDS Integers, SequencesExt

CONSTANTS
  Streams,   \* answers: sequences of tokens
  MaxBatch,  \* bound on the tokens of a delta
  MaxLag     \* bound on the characters held back

VARIABLES
  stream,  \* the answer
  skip,    \* skip_tool_parsing: this pass only separates the reasoning
  sent,    \* tokens delivered
  shown,   \* characters delivered
  engine,  \* the parser
  done,    \* it finished
  clear    \* history: no text fits a lagging special token in two places

vars == <<stream, skip, sent, shown, engine, done, clear>>

\* The terminals known by token id; their text from ordinary tokens is content.
Strict == {"THINK_START", "THINK_END", "TOOL_START", "TOOL_END", "DROP"}

Tag(t) == <<<<t, 1>>, <<t, 2>>>>

Decode(items) == FlattenSeq([i \in DOMAIN items |-> items[i].text])

Chunk(text) == IF text = <<>> THEN <<>> ELSE <<[terminal |-> "TEXT", text |-> text]>>

At(t, text) ==
  {i \in 1 .. Len(text) - 1 : text[i] = <<t, 1>> /\ text[i + 1] = <<t, 2>>}

From(text, i) == SubSeq(text, i, Len(text))

-----------------------------------------------------------------------------
(* The scanner: deferred terminals, and the text held for the first of them *)

Anchors(items) == SelectSeq(items, LAMBDA item : item.terminal # "TEXT")

\* Adjacent plain tokens make one chunk.
JoinText(tokens) ==
  FoldLeft(LAMBDA items, token :
             IF /\ items # <<>> /\ token.terminal = "TEXT"
                /\ Last(items).terminal = "TEXT"
             THEN [items EXCEPT ![Len(items)].text = @ \o token.text]
             ELSE Append(items, token),
           <<>>, tokens)

\* Deferred terminals take the first place of their text, in order; from the
\* first one whose text has not arrived everything waits.
ResolveDeferred(e, text) ==
  LET Place(r, a) ==
        LET places == At(a.terminal, r.rest)
        IN  IF places = {}
            THEN [r EXCEPT !.deferred = Append(@, a), !.post = @ \o r.rest, !.rest = <<>>]
            ELSE [r EXCEPT !.items = @ \o Chunk(SubSeq(r.rest, 1, Min(places) - 1)) \o <<a>>,
                           !.rest = From(@, Min(places) + 2)]
  IN  FoldLeft(Place, [items |-> <<>>, rest |-> e.post \o text,
                       deferred |-> <<>>, post |-> <<>>], e.deferred)

\* The rightmost place of each anchor before the next one's, 0 for none.
Positions(text, anchors) ==
  LET Bind(a, r) ==
        LET places == {i \in At(a.terminal, text) : i + 1 < r.before}
        IN  IF places = {} THEN [r EXCEPT !.at = <<0>> \o @]
            ELSE [before |-> Max(places), at |-> <<Max(places)>> \o r.at]
  IN  FoldRight(Bind, anchors, [before |-> Len(text) + 1, at |-> <<>>]).at

\* The text is split at the anchors found; the others are deferred, the text
\* after the last one found with them unless they are dropped anyway.
RebuildFromAnchors(text, items) ==
  LET anchors == Anchors(items)
      at == Positions(text, anchors)
      Split(r, i) ==
        IF at[i] > r.used
        THEN [r EXCEPT !.items = @ \o Chunk(SubSeq(text, r.used + 1, at[i] - 1)) \o <<anchors[i]>>,
                       !.used = at[i] + 1]
        ELSE IF /\ \A j \in i + 1 .. Len(at) : at[j] = 0
                /\ anchors[i].terminal # "DROP"
        THEN [r EXCEPT !.deferred = Append(@, anchors[i]),
                       !.post = @ \o From(text, r.used + 1), !.used = Len(text)]
        ELSE [r EXCEPT !.deferred = Append(@, anchors[i])]
      split == FoldLeftDomain(Split, [items |-> <<>>, deferred |-> <<>>, post |-> <<>>,
                                      used |-> 0], anchors)
  IN  [split EXCEPT !.items = @ \o Chunk(From(text, split.used + 1))]

TrailingDrops(items) ==
  {i \in DOMAIN items : \A j \in i .. Len(items) : items[j].terminal = "DROP"}

\* Seeded defect: the text of a final stop token is expected like any other.
RecoverHoldback_ExpectStop(text, items) ==
  IF IsSuffix(Decode(items), text)
  THEN [items |-> Chunk(SubSeq(text, 1, Len(text) - Len(Decode(items)))) \o items,
        deferred |-> <<>>, post |-> <<>>]
  ELSE RebuildFromAnchors(text, items)

\* The decoded tokens are looked for at the end of the text, with and without
\* the final drops; what comes before was held back.
RecoverHoldback(text, items) ==
  LET Behind(kept, drops) ==
        [items |-> Chunk(SubSeq(text, 1, Len(text) - Len(Decode(kept)))) \o kept,
         deferred |-> drops, post |-> <<>>]
      n == Len(items) - Cardinality(TrailingDrops(items))
      kept == SubSeq(items, 1, n)
  IN  IF IsSuffix(Decode(items), text) THEN Behind(items, <<>>)
      ELSE IF n < Len(items) /\ Decode(kept) # <<>> /\ IsSuffix(Decode(kept), text)
      THEN Behind(kept, From(items, n + 1))
      ELSE RebuildFromAnchors(text, items)

Scan(e, text, tokens) ==
  LET r == ResolveDeferred(e, text)
      s == IF Anchors(tokens) = <<>>
           THEN [items |-> Chunk(r.rest), deferred |-> <<>>, post |-> <<>>]
           ELSE IF r.rest = <<>>
           THEN [items |-> <<>>, deferred |-> Anchors(tokens), post |-> <<>>]
           ELSE RecoverHoldback(r.rest, JoinText(tokens))
  IN  [items |-> r.items \o s.items, deferred |-> r.deferred \o s.deferred,
       post |-> r.post \o s.post]

-----------------------------------------------------------------------------
(* The table of the GLM-4.7 format and the machine that runs it *)

Row(state, terminal, next, events) ==
  (<<state, terminal>> :> [next |-> next, events |-> events])

Transitions ==
  Row("TOOL_NAME", "ARG_KEY_START", "TOOL_BETWEEN", <<"ARG_VALUE_CHUNK">>)
  @@ Row("TOOL_BETWEEN", "ARG_KEY_START", "TOOL_BETWEEN", <<"ARG_VALUE_CHUNK">>)
  @@ Row("TOOL_BETWEEN", "ARG_KEY_END", "TOOL_BETWEEN", <<"ARG_VALUE_CHUNK">>)
  @@ Row("TOOL_BETWEEN", "ARG_VALUE_START", "TOOL_ARGS", <<"ARG_VALUE_CHUNK">>)
  @@ Row("TOOL_ARGS", "ARG_VALUE_END", "TOOL_ARG_END_PENDING", <<"ARG_VALUE_CHUNK">>)
  @@ Row("TOOL_ARG_END_PENDING", "ARG_VALUE_END", "TOOL_ARG_END_PENDING", <<"ARG_VALUE_CHUNK">>)
  @@ Row("TOOL_ARG_END_PENDING", "ARG_KEY_START", "TOOL_BETWEEN", <<"ARG_VALUE_CHUNK">>)
  @@ Row("CONTENT", "THINK_START", "REASONING", <<"REASONING_START">>)
  @@ Row("REASONING", "THINK_END", "CONTENT", <<"REASONING_END">>)
  @@ Row("CONTENT", "THINK_END", "CONTENT", <<>>)
  @@ Row("REASONING", "THINK_START", "REASONING", <<>>)
  @@ Row("REASONING", "TOOL_START", "TOOL_NAME", <<"REASONING_END", "TOOL_CALL_START">>)
  @@ Row("CONTENT", "TOOL_START", "TOOL_NAME", <<"TOOL_CALL_START">>)
  @@ Row("TOOL_NAME", "TOOL_END", "CONTENT", <<"TOOL_CALL_END">>)
  @@ Row("TOOL_BETWEEN", "TOOL_END", "CONTENT", <<"TOOL_CALL_END">>)
  @@ Row("TOOL_ARG_END_PENDING", "TOOL_END", "CONTENT", <<"TOOL_CALL_END">>)

ContentEvents ==
  [CONTENT |-> "TEXT_CHUNK", REASONING |-> "REASONING_CHUNK", TOOL_NAME |-> "TOOL_NAME",
   TOOL_ARGS |-> "ARG_VALUE_CHUNK", TOOL_BETWEEN |-> "ARG_VALUE_CHUNK",
   TOOL_ARG_END_PENDING |-> "ARG_VALUE_CHUNK"]

ToolStates == {"TOOL_NAME", "TOOL_ARGS", "TOOL_BETWEEN", "TOOL_ARG_END_PENDING"}

ToolTerminals ==
  {row[2] : row \in {r \in DOMAIN Transitions : {r[1], Transitions[r].next} \cap ToolStates # {}}}

\* Events as their reader adds them up: chunks of one kind become one.
Emit(e, type, value) ==
  LET n == Len(e.out)
  IN  IF /\ n > 0 /\ e.out[n].type = type /\ e.out[n].index = e.index
         /\ type \in Range(ContentEvents)
      THEN [e EXCEPT !.out[n].value = @ \o value]
      ELSE [e EXCEPT !.out = Append(@, [type |-> type, index |-> e.index, value |-> value])]

ApplyTransition(e, transition, value) ==
  FoldLeft(LAMBDA f, type :
             Emit([f EXCEPT !.index = @ + (IF type = "TOOL_CALL_START" THEN 1 ELSE 0)],
                  type, value),
           [e EXCEPT !.state = transition.next], transition.events)

Blank == <<" ", 0>>

\* After </arg_value>, anything but blanks means that the tag was data.
EmitForState(e, text) ==
  IF e.state = "TOOL_ARG_END_PENDING" /\ Range(text) # {Blank}
  THEN ApplyTransition(e, [next |-> "TOOL_ARGS", events |-> <<"ARG_VALUE_CHUNK">>], text)
  ELSE Emit(e, ContentEvents[e.state], text)

OnTerminal(e, terminal, value) ==
  IF <<e.state, terminal>> \notin DOMAIN Transitions
  THEN IF terminal = "DROP" /\ ~skip THEN e ELSE EmitForState(e, value)
  ELSE IF ~(skip /\ terminal \in ToolTerminals)
  THEN ApplyTransition(e, Transitions[<<e.state, terminal>>], value)
  ELSE IF e.state = "REASONING"
  THEN ApplyTransition(e, [next |-> "CONTENT", events |-> <<"REASONING_END", "TEXT_CHUNK">>], value)
  ELSE Emit(e, ContentEvents[e.state], value)

\* The lexer's buffer is the first half of a tag; it is content when the
\* second half does not follow.
Flush(e) == IF e.buffer = <<>> THEN e ELSE [EmitForState(e, e.buffer) EXCEPT !.buffer = <<>>]

Lex(e, c) ==
  CASE e.buffer # <<>> /\ c = <<e.buffer[1][1], 2>> ->
         LET t == c[1]
             f == [e EXCEPT !.buffer = <<>>]
         IN  IF t \in Strict THEN EmitForState(f, Tag(t)) ELSE OnTerminal(f, t, Tag(t))
    [] c[2] = 1 -> [Flush(e) EXCEPT !.buffer = <<c>>]
    [] OTHER -> EmitForState(Flush(e), <<c>>)

Process(e, items) ==
  FoldLeft(LAMBDA f, item :
             IF item.terminal = "TEXT" THEN FoldLeft(Lex, f, item.text)
             ELSE OnTerminal(Flush(f), item.terminal, item.text),
           e, items)

FeedEngine(e, text, tokens) ==
  LET scan == Scan(e, text, tokens)
  IN  Process([e EXCEPT !.deferred = scan.deferred, !.post = scan.post], scan.items)

\* What is pending is processed, and the open part closed.
FinishEngine(e) ==
  LET f == Flush(Process([e EXCEPT !.deferred = <<>>, !.post = <<>>],
                         Chunk(e.post) \o e.deferred))
      closing == CASE f.state \in ToolStates -> <<"TOOL_CALL_END">>
                   [] f.state = "REASONING" -> <<"REASONING_END">>
                   [] OTHER -> <<>>
  IN  ApplyTransition(f, [next |-> "CONTENT", events |-> closing], <<>>)

Fresh == [state |-> "REASONING", index |-> -1, out |-> <<>>, buffer |-> <<>>,
          deferred |-> <<>>, post |-> <<>>]

-----------------------------------------------------------------------------
(* The arguments of one call, as far as their text has come *)

AfterBlanks(text, i) == Min({j \in i .. Len(text) : text[j] # Blank} \cup {Len(text) + 1})

Strip(text) ==
  LET solid == {i \in DOMAIN text : text[i] # Blank}
  IN  IF solid = {} THEN <<>> ELSE SubSeq(text, Min(solid), Max(solid))

\* Places of "<arg_key>key</arg_key> <arg_value>" from p on: the start, the
\* end of the key and the start of the value.
Openings(text, p) ==
  {o \in At("ARG_KEY_START", text) \X At("ARG_KEY_END", text) \X At("ARG_VALUE_START", text) :
     p <= o[1] /\ o[1] + 2 <= o[2] /\ AfterBlanks(text, o[2] + 2) = o[3]}

\* A regular expression takes the leftmost start and the shortest key.
Leftmost(openings) ==
  CHOOSE o \in openings : \A q \in openings : o[1] < q[1] \/ (o[1] = q[1] /\ o[2] <= q[2])

\* An end of a value is followed by the next key or by nothing.
Ends(text, o) ==
  {w \in At("ARG_VALUE_END", text) :
     /\ o[3] + 2 <= w
     /\ AfterBlanks(text, w + 2) \in At("ARG_KEY_START", text) \cup {Len(text) + 1}}

Pair(text, o, last) == <<Strip(SubSeq(text, o[1] + 2, o[2] - 1)), SubSeq(text, o[3] + 2, last)>>

\* Seeded defect: a last end of a value that may still be data is shown.
TailPair_ShowEnd(text, p) ==
  LET o == Leftmost(Openings(text, p))
      pair == Pair(text, o, Len(text))
  IN  IF Openings(text, p) = {} \/ pair[1] = <<>> THEN <<>> ELSE <<pair>>

\* The argument that is still open, up to its last possible end.
TailPair(text, p) ==
  LET o == Leftmost(Openings(text, p))
      ends == {w \in At("ARG_VALUE_END", text) : o[3] + 2 <= w}
      pair == Pair(text, o, IF ends = {} THEN Len(text) ELSE Max(ends) - 1)
  IN  IF Openings(text, p) = {} \/ pair[1] = <<>> THEN <<>> ELSE <<pair>>

\* A last argument that seems complete is open while more text may come.
Pairs(text, partial) ==
  LET Rest[p \in 1 .. Len(text) + 1] ==
        LET complete == {o \in Openings(text, p) : Ends(text, o) # {}}
            o == Leftmost(complete)
            w == Min(Ends(text, o))
        IN  IF complete = {} \/ (partial /\ AfterBlanks(text, w + 2) > Len(text))
            THEN TailPair(text, p)
            ELSE <<Pair(text, o, w - 1)>> \o Rest[w + 2]
  IN  Rest[1]

-----------------------------------------------------------------------------
(* Delivery *)

\* The text of the first n tokens; that of a final stop token is cut off.
Visible(n) ==
  Decode(SubSeq(stream, 1, IF n = Len(stream) /\ stream[n].terminal = "DROP" THEN n - 1 ELSE n))

\* A terminal of the delta, or one that waits, fits two places of the text
\* that has not been processed.
Ambiguous(n, upto) ==
  LET window == engine.post \o From(Visible(n), shown + 1)
      lagging == engine.deferred # <<>> \/ shown < Len(Visible(sent)) \/ upto < Len(Visible(n))
      sought == engine.deferred \o Anchors(SubSeq(stream, sent + 1, n))
  IN  lagging /\ \E a \in Range(sought) : Cardinality(At(a.terminal, window)) > 1

\* One delta: the next tokens, and text up to a few characters short of them.
Feed ==
  /\ \E n \in sent + 1 .. Min({sent + MaxBatch, Len(stream)}), lag \in 0 .. MaxLag :
       LET upto == Len(Visible(n)) - lag
       IN  /\ n = Len(stream) => lag = 0
           /\ shown <= upto
           /\ engine' = FeedEngine(engine, SubSeq(Visible(n), shown + 1, upto),
                                   SubSeq(stream, sent + 1, n))
           /\ clear' = (clear /\ ~Ambiguous(n, upto))
           /\ sent' = n /\ shown' = upto
  /\ UNCHANGED <<stream, skip, done>>

Finish ==
  /\ sent = Len(stream) /\ ~done
  /\ engine' = FinishEngine(engine)
  /\ done' = TRUE
  /\ UNCHANGED <<stream, skip, sent, shown, clear>>

Init ==
  /\ stream \in Streams /\ skip \in BOOLEAN
  /\ sent = 0 /\ shown = 0 /\ engine = Fresh /\ done = FALSE /\ clear = TRUE

Next == Feed \/ Finish

Spec == Init /\ [][Next]_vars

-----------------------------------------------------------------------------
(* Properties *)

\* How the answer was cut into deltas, and how far the text lagged, never
\* shows: unless a lagging tag fits two places, the events are those of the
\* whole token sequence (scan, _recover_holdback_text, _rebuild_from_anchors).
ChunkingIsInvisible ==
  done /\ clear => engine.out = FinishEngine(Process(Fresh, JoinText(stream))).out

Args(e, k) ==
  Decode([i \in DOMAIN e.out |->
            [text |-> IF e.out[i].index = k /\ e.out[i].type = "ARG_VALUE_CHUNK"
                      THEN e.out[i].value ELSE <<>>]])

Ended(e, k) == \E i \in DOMAIN e.out : e.out[i].type = "TOOL_CALL_END" /\ e.out[i].index = k

Extends(new, old) ==
  /\ Len(old) <= Len(new)
  /\ \A i \in DOMAIN old :
       /\ new[i][1] = old[i][1]
       /\ IF i < Len(old) THEN new[i][2] = old[i][2] ELSE IsPrefix(old[i][2], new[i][2])

Distinct(pairs) == \A i, j \in DOMAIN pairs : pairs[i][1] = pairs[j][1] => i = j

\* Arguments shown to the client are never taken back: what is converted from
\* more text extends what was converted from less, and so does the final
\* conversion, for a call that does not repeat a key (_glm47_arg_converter).
ArgumentsGrow ==
  [][\A k \in 0 .. engine.index : \A old \in {Args(engine, k)}, new \in {Args(engine', k)} :
       Distinct(Pairs(new, ~Ended(engine', k)))
         => Extends(Pairs(new, ~Ended(engine', k)), Pairs(old, ~Ended(engine, k)))]_vars
=============================================================================
