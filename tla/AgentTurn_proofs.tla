---------------------------- MODULE AgentTurn_proofs ----------------------------
(***************************************************************************)
(* What a client is shown, what is collected and what the result says of a *)
(* turn, for any configuration, any subagents, tools and block indexes and *)
(* any number of messages and queries.  The loops of the code are folds,   *)
(* of which MessageFold_proofs says what they compute.                     *)
(***************************************************************************)
EXTENDS AgentTurn, FiniteSetTheorems, MessageFold_proofs

OrNone == Tools \cup {None}
(* A message, and what its kind says of its parts.                          *)
WellMade(m) ==
    /\ IsAnswer(m) => m.ids # {}
    /\ IsToolUse(m) \/ IsTaskCall(m) => m.tool \in Tools
    /\ m.type = "stream_event" /\ m.kind \in {"toolStart", "input"} => m.tool \in Tools
    /\ m.type = "stream_event" /\ m.kind # "delta" => m.index \in Indexes
Raw ==
    [type : Types, kind : Kinds, by : Authors, tool : OrNone, index : Indexes \cup {0},
     ids : SUBSET OrNone, old : BOOLEAN]
Messages == {m \in Raw : WellMade(m)}
FrameKinds == {"begin", "open", "close", "text", "call", "message", "error", "end"}
FrameSet ==
    [kind : FrameKinds, by : Authors \cup {None}, tool : OrNone, input : Seq(Tools),
     message : Messages \cup {None}]

-------------------------------------------------------------------------------
(***************************************************************************)
(* The folds of the turn: what they start with, and what one more element  *)
(* makes of them.                                                          *)
(***************************************************************************)
Diagnostics ==
    [exhausted : BOOLEAN, isError : BOOLEAN, deferred : BOOLEAN, refused : BOOLEAN, failing : BOOLEAN]

LEMMA Processing ==
    /\ ProcessMessages(<<>>) = NothingProcessed
    /\ \A list \in Seq(Messages) :
          /\ ProcessMessages(list) \in Diagnostics
          /\ \A m \in Messages : ProcessMessages(Append(list, m)) = Process(ProcessMessages(list), m)
<1> DEFINE step == [x \in Diagnostics \X Messages |-> Process(x[1], x[2])]
           value == [list \in Seq(Messages) |-> ProcessMessages(list)]
<1>1. \A p \in Diagnostics, m \in Messages : Process(p, m) \in Diagnostics
  <2> SUFFICES ASSUME NEW p \in Diagnostics, NEW m \in Messages PROVE Process(p, m) \in Diagnostics
    OBVIOUS
  <2>1. ProcessAssistant(p, m) \in Diagnostics
    BY DEF Diagnostics, ProcessAssistant, LooksFailed
  <2>2. ProcessResult(p, m) \in Diagnostics
    <3>1. \E a, b, c, d \in BOOLEAN :
              ProcessResult(p, m) = [p EXCEPT !.exhausted = a, !.isError = b, !.deferred = c, !.refused = d]
      <4> DEFINE c == IF m.kind = "unmarked" THEN p.deferred ELSE m.kind = "deferred"
                 d == IF m.kind = "unmarked" THEN p.refused ELSE m.kind = "refusal"
      <4>1. c \in BOOLEAN /\ d \in BOOLEAN /\ (m.kind = "exhausted") \in BOOLEAN /\ IsError(m) \in BOOLEAN
        <5>1. p.deferred \in BOOLEAN /\ p.refused \in BOOLEAN
          BY DEF Diagnostics
        <5>2. c \in BOOLEAN
          BY <5>1, Zenon
        <5>3. d \in BOOLEAN
          BY <5>1, Zenon
        <5>4. (m.kind = "exhausted") \in BOOLEAN
          OBVIOUS
        <5>5. IsError(m) \in BOOLEAN
          BY DEF IsError
        <5> QED BY <5>2, <5>3, <5>4, <5>5
      <4>2. ProcessResult(p, m) = [p EXCEPT !.exhausted = (m.kind = "exhausted"), !.isError = IsError(m),
                                            !.deferred = c, !.refused = d]
        BY DEF ProcessResult
      <4> HIDE DEF c, d
      <4> QED BY <4>1, <4>2
    <3> QED BY <3>1 DEF Diagnostics
  <2> QED BY <2>1, <2>2 DEF Process
<1>2. IsStep(step, NothingProcessed, Diagnostics, Messages)
  <2>1. NothingProcessed \in Diagnostics
    BY DEF Diagnostics, NothingProcessed
  <2> QED BY <1>1, <2>1 DEF IsStep
<1>3. \A p \in Diagnostics, m \in Messages : step[<<p, m>>] = Process(p, m)
  OBVIOUS
<1> HIDE DEF step
<1>4. ASSUME NEW list \in Seq(Messages)
      PROVE  \E f : Folds(f, Diagnostics, step, NothingProcessed, list, Len(list)) /\ ProcessMessages(list) = f[Len(list)]
  <2> DEFINE Is(f) == f = [i \in 0 .. Len(list) |->
                              IF i = 0 THEN NothingProcessed ELSE Process(f[i - 1], list[i])]
  <2>1. PICK g \in [0 .. Len(list) -> Diagnostics] : IsFold(g, step, NothingProcessed, list, Len(list))
    BY <1>2, FoldExists DEF IsStep
  <2>2. \A i \in 1 .. Len(list) : g[i - 1] \in Diagnostics /\ list[i] \in Messages
    OBVIOUS
  <2>3. Is(g)
    <3>1. \A i \in 1 .. Len(list) : g[i] = Process(g[i - 1], list[i])
      BY <1>3, <2>1, <2>2 DEF IsFold
    <3> QED BY <2>1, <3>1 DEF IsFold
  <2>4. PICK h : Is(h) /\ ProcessMessages(list) = h[Len(list)]
    BY <2>3 DEF ProcessMessages, Fold
  <2>5. Folds(h, Diagnostics, step, NothingProcessed, list, Len(list))
    <3>1. h[0] = NothingProcessed /\ \A i \in 1 .. Len(list) : h[i] = Process(h[i - 1], list[i])
      BY <2>4
    <3> QED BY <1>3, <2>2, <3>1 DEF Folds
  <2> QED BY <2>4, <2>5
<1>5. IsLoop(value, step, NothingProcessed, Diagnostics, Messages)
  BY <1>4 DEF IsLoop
<1>6. /\ value[<<>>] = NothingProcessed
      /\ \A list \in Seq(Messages) :
            value[list] \in Diagnostics /\ \A m \in Messages : value[Append(list, m)] = step[<<value[list], m>>]
  <2> HIDE DEF value
  <2> QED BY <1>2, <1>5, LoopLaw
<1>7. <<>> \in Seq(Messages) /\ \A list \in Seq(Messages), m \in Messages : Append(list, m) \in Seq(Messages)
  OBVIOUS
<1>8. \A list \in Seq(Messages) : value[list] = ProcessMessages(list)
  OBVIOUS
<1> HIDE DEF value
<1> QED BY <1>3, <1>6, <1>7, <1>8

Tracks == [status : OrNone, calls : SUBSET Messages]
Tasks(list) == Fold(Track, NoTasks, list)

LEMMA Tracking ==
    /\ Tasks(<<>>) = NoTasks
    /\ \A list \in Seq(Messages) :
          /\ Tasks(list) \in Tracks
          /\ \A m \in Messages : Tasks(Append(list, m)) = Track(Tasks(list), m)
<1> DEFINE step == [x \in Tracks \X Messages |-> Track(x[1], x[2])]
           value == [list \in Seq(Messages) |-> Tasks(list)]
<1>1. \A p \in Tracks, m \in Messages : Track(p, m) \in Tracks
  <2> SUFFICES ASSUME NEW p \in Tracks, NEW m \in Messages PROVE Track(p, m) \in Tracks
    OBVIOUS
  <2>1. TrackCall(p, m) \in Tracks
    <3>1. (IF m.kind = "update" THEN m.tool ELSE p.status) \in OrNone
      BY DEF Messages, Raw, Tracks
    <3> QED BY <3>1 DEF TrackCall, Tracks
  <2>2. IsAnswer(m) => TrackAnswer(p, m) \in Tracks
    <3> SUFFICES ASSUME IsAnswer(m) PROVE TrackAnswer(p, m) \in Tracks
      OBVIOUS
    <3>1. (CHOOSE s \in m.ids : TRUE) \in OrNone /\ m.tool \in OrNone
      <4>1. m.ids # {} /\ m.ids \subseteq OrNone /\ m.tool \in OrNone
        BY DEF Messages, Raw, WellMade
      <4>2. \E s \in m.ids : TRUE
        BY <4>1
      <4> QED BY <4>1, <4>2
    <3>2. \A s \in OrNone : [p EXCEPT !.status = s] \in Tracks
      BY DEF Tracks
    <3> QED BY <3>1, <3>2 DEF TrackAnswer
  <2> QED BY <2>1, <2>2 DEF Track
<1>2. IsStep(step, NoTasks, Tracks, Messages)
  <2>1. NoTasks \in Tracks
    BY DEF Tracks, NoTasks, OrNone
  <2> QED BY <1>1, <2>1 DEF IsStep
<1>3. \A p \in Tracks, m \in Messages : step[<<p, m>>] = Track(p, m)
  OBVIOUS
<1> HIDE DEF step
<1>4. ASSUME NEW list \in Seq(Messages)
      PROVE  \E f : Folds(f, Tracks, step, NoTasks, list, Len(list)) /\ Tasks(list) = f[Len(list)]
  <2> DEFINE Is(f) == f = [i \in 0 .. Len(list) |->
                              IF i = 0 THEN NoTasks ELSE Track(f[i - 1], list[i])]
  <2>1. PICK g \in [0 .. Len(list) -> Tracks] : IsFold(g, step, NoTasks, list, Len(list))
    BY <1>2, FoldExists DEF IsStep
  <2>2. \A i \in 1 .. Len(list) : g[i - 1] \in Tracks /\ list[i] \in Messages
    OBVIOUS
  <2>3. Is(g)
    <3>1. \A i \in 1 .. Len(list) : g[i] = Track(g[i - 1], list[i])
      BY <1>3, <2>1, <2>2 DEF IsFold
    <3> QED BY <2>1, <3>1 DEF IsFold
  <2>4. PICK h : Is(h) /\ Tasks(list) = h[Len(list)]
    BY <2>3 DEF Tasks, Fold
  <2>5. Folds(h, Tracks, step, NoTasks, list, Len(list))
    <3>1. h[0] = NoTasks /\ \A i \in 1 .. Len(list) : h[i] = Track(h[i - 1], list[i])
      BY <2>4
    <3> QED BY <1>3, <2>2, <3>1 DEF Folds
  <2> QED BY <2>4, <2>5
<1>5. IsLoop(value, step, NoTasks, Tracks, Messages)
  BY <1>4 DEF IsLoop
<1>6. /\ value[<<>>] = NoTasks
      /\ \A list \in Seq(Messages) :
            value[list] \in Tracks /\ \A m \in Messages : value[Append(list, m)] = step[<<value[list], m>>]
  <2> HIDE DEF value
  <2> QED BY <1>2, <1>5, LoopLaw
<1>7. <<>> \in Seq(Messages) /\ \A list \in Seq(Messages), m \in Messages : Append(list, m) \in Seq(Messages)
  OBVIOUS
<1>8. \A list \in Seq(Messages) : value[list] = Tasks(list)
  OBVIOUS
<1> HIDE DEF value
<1> QED BY <1>3, <1>6, <1>7, <1>8

Effects == [status : OrNone, updates : SUBSET OrNone]
NoEffect == [status |-> None, updates |-> {}]
Effect(list) == Fold(CarryOut, NoEffect, list)

LEMMA CarryingOut ==
    /\ Effect(<<>>) = NoEffect
    /\ \A list \in Seq(Messages) :
          /\ Effect(list) \in Effects
          /\ \A m \in Messages : Effect(Append(list, m)) = CarryOut(Effect(list), m)
<1> DEFINE step == [x \in Effects \X Messages |-> CarryOut(x[1], x[2])]
           value == [list \in Seq(Messages) |-> Effect(list)]
<1>1. \A p \in Effects, m \in Messages : CarryOut(p, m) \in Effects
  <2> SUFFICES ASSUME NEW p \in Effects, NEW m \in Messages PROVE CarryOut(p, m) \in Effects
    OBVIOUS
  <2>1. m.tool \in OrNone
    BY DEF Messages, Raw
  <2>2. [p EXCEPT !.updates = @ \cup {m.tool}] \in Effects /\ [p EXCEPT !.status = m.tool] \in Effects
    BY <2>1 DEF Effects
  <2> QED BY <2>2 DEF CarryOut
<1>2. IsStep(step, NoEffect, Effects, Messages)
  <2>1. NoEffect \in Effects
    BY DEF Effects, NoEffect, OrNone
  <2> QED BY <1>1, <2>1 DEF IsStep
<1>3. \A p \in Effects, m \in Messages : step[<<p, m>>] = CarryOut(p, m)
  OBVIOUS
<1> HIDE DEF step
<1>4. ASSUME NEW list \in Seq(Messages)
      PROVE  \E f : Folds(f, Effects, step, NoEffect, list, Len(list)) /\ Effect(list) = f[Len(list)]
  <2> DEFINE Is(f) == f = [i \in 0 .. Len(list) |->
                              IF i = 0 THEN NoEffect ELSE CarryOut(f[i - 1], list[i])]
  <2>1. PICK g \in [0 .. Len(list) -> Effects] : IsFold(g, step, NoEffect, list, Len(list))
    BY <1>2, FoldExists DEF IsStep
  <2>2. \A i \in 1 .. Len(list) : g[i - 1] \in Effects /\ list[i] \in Messages
    OBVIOUS
  <2>3. Is(g)
    <3>1. \A i \in 1 .. Len(list) : g[i] = CarryOut(g[i - 1], list[i])
      BY <1>3, <2>1, <2>2 DEF IsFold
    <3> QED BY <2>1, <3>1 DEF IsFold
  <2>4. PICK h : Is(h) /\ Effect(list) = h[Len(list)]
    BY <2>3 DEF Effect, Fold
  <2>5. Folds(h, Effects, step, NoEffect, list, Len(list))
    <3>1. h[0] = NoEffect /\ \A i \in 1 .. Len(list) : h[i] = CarryOut(h[i - 1], list[i])
      BY <2>4
    <3> QED BY <1>3, <2>2, <3>1 DEF Folds
  <2> QED BY <2>4, <2>5
<1>5. IsLoop(value, step, NoEffect, Effects, Messages)
  BY <1>4 DEF IsLoop
<1>6. /\ value[<<>>] = NoEffect
      /\ \A list \in Seq(Messages) :
            value[list] \in Effects /\ \A m \in Messages : value[Append(list, m)] = step[<<value[list], m>>]
  <2> HIDE DEF value
  <2> QED BY <1>2, <1>5, LoopLaw
<1>7. <<>> \in Seq(Messages) /\ \A list \in Seq(Messages), m \in Messages : Append(list, m) \in Seq(Messages)
  OBVIOUS
<1>8. \A list \in Seq(Messages) : value[list] = Effect(list)
  OBVIOUS
<1> HIDE DEF value
<1> QED BY <1>3, <1>6, <1>7, <1>8

Readers == [by : Authors \cup {None}, right : BOOLEAN]
Reading(list) == Fold(ReadFrame, Reader, list)

LEMMA ReadingFrames ==
    /\ Reading(<<>>) = Reader
    /\ \A list \in Seq(FrameSet) :
          /\ Reading(list) \in Readers
          /\ \A m \in FrameSet : Reading(Append(list, m)) = ReadFrame(Reading(list), m)
<1> DEFINE step == [x \in Readers \X FrameSet |-> ReadFrame(x[1], x[2])]
           value == [list \in Seq(FrameSet) |-> Reading(list)]
<1>1. \A p \in Readers, m \in FrameSet : ReadFrame(p, m) \in Readers
  <2> SUFFICES ASSUME NEW p \in Readers, NEW m \in FrameSet PROVE ReadFrame(p, m) \in Readers
    OBVIOUS
  <2>1. \A a \in Authors \cup {None}, b \in BOOLEAN : [by |-> a, right |-> b] \in Readers
    BY DEF Readers
  <2>2. \A a \in Authors : [p EXCEPT !.by = a] \in Readers
    BY DEF Readers
  <2>3. \A b \in BOOLEAN : [p EXCEPT !.right = b] \in Readers
    BY DEF Readers
  <2>4. /\ Main \in Authors /\ m.by \in Authors \cup {None}
        /\ (p.right /\ p.by = Main) \in BOOLEAN /\ (p.right /\ p.by # Main) \in BOOLEAN
        /\ (p.right /\ MayBe(p.by, m.by)) \in BOOLEAN
    BY DEF Readers, FrameSet, Authors
  <2> QED BY <2>1, <2>2, <2>3, <2>4 DEF ReadFrame
<1>2. IsStep(step, Reader, Readers, FrameSet)
  <2>1. Reader \in Readers
    BY DEF Readers, Reader, Authors
  <2> QED BY <1>1, <2>1 DEF IsStep
<1>3. \A p \in Readers, m \in FrameSet : step[<<p, m>>] = ReadFrame(p, m)
  OBVIOUS
<1> HIDE DEF step
<1>4. ASSUME NEW list \in Seq(FrameSet)
      PROVE  \E f : Folds(f, Readers, step, Reader, list, Len(list)) /\ Reading(list) = f[Len(list)]
  <2> DEFINE Is(f) == f = [i \in 0 .. Len(list) |->
                              IF i = 0 THEN Reader ELSE ReadFrame(f[i - 1], list[i])]
  <2>1. PICK g \in [0 .. Len(list) -> Readers] : IsFold(g, step, Reader, list, Len(list))
    BY <1>2, FoldExists DEF IsStep
  <2>2. \A i \in 1 .. Len(list) : g[i - 1] \in Readers /\ list[i] \in FrameSet
    OBVIOUS
  <2>3. Is(g)
    <3>1. \A i \in 1 .. Len(list) : g[i] = ReadFrame(g[i - 1], list[i])
      BY <1>3, <2>1, <2>2 DEF IsFold
    <3> QED BY <2>1, <3>1 DEF IsFold
  <2>4. PICK h : Is(h) /\ Reading(list) = h[Len(list)]
    BY <2>3 DEF Reading, Fold
  <2>5. Folds(h, Readers, step, Reader, list, Len(list))
    <3>1. h[0] = Reader /\ \A i \in 1 .. Len(list) : h[i] = ReadFrame(h[i - 1], list[i])
      BY <2>4
    <3> QED BY <1>3, <2>2, <3>1 DEF Folds
  <2> QED BY <2>4, <2>5
<1>5. IsLoop(value, step, Reader, Readers, FrameSet)
  BY <1>4 DEF IsLoop
<1>6. /\ value[<<>>] = Reader
      /\ \A list \in Seq(FrameSet) :
            value[list] \in Readers /\ \A m \in FrameSet : value[Append(list, m)] = step[<<value[list], m>>]
  <2> HIDE DEF value
  <2> QED BY <1>2, <1>5, LoopLaw
<1>7. <<>> \in Seq(FrameSet) /\ \A list \in Seq(FrameSet), m \in FrameSet : Append(list, m) \in Seq(FrameSet)
  OBVIOUS
<1>8. \A list \in Seq(FrameSet) : value[list] = Reading(list)
  OBVIOUS
<1> HIDE DEF value
<1> QED BY <1>3, <1>6, <1>7, <1>8

ReadOn(kind, read, f) ==
    IF f.kind = "begin" THEN <<>> ELSE IF f.kind = kind THEN Append(read, f) ELSE read
FramesIn(kind, list) ==
    LET Read(read, f) == ReadOn(kind, read, f) IN Fold(Read, <<>>, list)

LEMMA FindingFrames ==
    ASSUME NEW kind
    PROVE  /\ FramesIn(kind, <<>>) = <<>>
           /\ \A list \in Seq(FrameSet) :
                 /\ FramesIn(kind, list) \in Seq(FrameSet)
                 /\ \A m \in FrameSet : FramesIn(kind, Append(list, m)) = ReadOn(kind, FramesIn(kind, list), m)
<1> DEFINE step == [x \in Seq(FrameSet) \X FrameSet |-> ReadOn(kind, x[1], x[2])]
           value == [list \in Seq(FrameSet) |-> FramesIn(kind, list)]
<1>1. \A p \in Seq(FrameSet), m \in FrameSet : ReadOn(kind, p, m) \in Seq(FrameSet)
  BY DEF ReadOn
<1>2. IsStep(step, <<>>, Seq(FrameSet), FrameSet)
  <2>1. <<>> \in Seq(FrameSet)
    OBVIOUS
  <2> QED BY <1>1, <2>1 DEF IsStep
<1>3. \A p \in Seq(FrameSet), m \in FrameSet : step[<<p, m>>] = ReadOn(kind, p, m)
  OBVIOUS
<1> HIDE DEF step
<1>4. ASSUME NEW list \in Seq(FrameSet)
      PROVE  \E f : Folds(f, Seq(FrameSet), step, <<>>, list, Len(list)) /\ FramesIn(kind, list) = f[Len(list)]
  <2> DEFINE Is(f) == f = [i \in 0 .. Len(list) |->
                              IF i = 0 THEN <<>> ELSE ReadOn(kind, f[i - 1], list[i])]
  <2>1. PICK g \in [0 .. Len(list) -> Seq(FrameSet)] : IsFold(g, step, <<>>, list, Len(list))
    BY <1>2, FoldExists DEF IsStep
  <2>2. \A i \in 1 .. Len(list) : g[i - 1] \in Seq(FrameSet) /\ list[i] \in FrameSet
    OBVIOUS
  <2>3. Is(g)
    <3>1. \A i \in 1 .. Len(list) : g[i] = ReadOn(kind, g[i - 1], list[i])
      BY <1>3, <2>1, <2>2 DEF IsFold
    <3> QED BY <2>1, <3>1 DEF IsFold
  <2>4. PICK h : Is(h) /\ FramesIn(kind, list) = h[Len(list)]
    BY <2>3 DEF FramesIn, Fold
  <2>5. Folds(h, Seq(FrameSet), step, <<>>, list, Len(list))
    <3>1. h[0] = <<>> /\ \A i \in 1 .. Len(list) : h[i] = ReadOn(kind, h[i - 1], list[i])
      BY <2>4
    <3> QED BY <1>3, <2>2, <3>1 DEF Folds
  <2> QED BY <2>4, <2>5
<1>5. IsLoop(value, step, <<>>, Seq(FrameSet), FrameSet)
  BY <1>4 DEF IsLoop
<1>6. /\ value[<<>>] = <<>>
      /\ \A list \in Seq(FrameSet) :
            value[list] \in Seq(FrameSet) /\ \A m \in FrameSet : value[Append(list, m)] = step[<<value[list], m>>]
  <2> HIDE DEF value
  <2> QED BY <1>2, <1>5, LoopLaw
<1>7. <<>> \in Seq(FrameSet) /\ \A list \in Seq(FrameSet), m \in FrameSet : Append(list, m) \in Seq(FrameSet)
  OBVIOUS
<1>8. \A list \in Seq(FrameSet) : value[list] = FramesIn(kind, list)
  OBVIOUS
<1> HIDE DEF value
<1>9. FramesIn(kind, <<>>) = <<>>
  BY <1>6, <1>7, <1>8
<1>10. ASSUME NEW list \in Seq(FrameSet) PROVE FramesIn(kind, list) \in Seq(FrameSet) /\ value[list] = FramesIn(kind, list)
  BY <1>6, <1>8, <1>10
<1>11. ASSUME NEW list \in Seq(FrameSet), NEW m \in FrameSet
       PROVE  FramesIn(kind, Append(list, m)) = ReadOn(kind, FramesIn(kind, list), m)
  <2>1. Append(list, m) \in Seq(FrameSet)
    BY <1>7
  <2>2. value[Append(list, m)] = step[<<FramesIn(kind, list), m>>]
    BY <1>6, <1>10
  <2> QED BY <1>3, <1>8, <1>10, <2>1, <2>2
<1> QED BY <1>9, <1>10, <1>11

KeepOn(passes, kept, x) == IF passes THEN Append(kept, x) ELSE kept

LEMMA KeepingResults ==
    /\ Kept(IsResult, <<>>) = <<>>
    /\ \A list \in Seq(Messages) :
          /\ Kept(IsResult, list) \in Seq(Messages)
          /\ \A m \in Messages : Kept(IsResult, Append(list, m)) = KeepOn(IsResult(m), Kept(IsResult, list), m)
<1> DEFINE step == [x \in Seq(Messages) \X Messages |-> KeepOn(IsResult(x[2]), x[1], x[2])]
           value == [list \in Seq(Messages) |-> Kept(IsResult, list)]
<1>1. \A p \in Seq(Messages), m \in Messages : KeepOn(IsResult(m), p, m) \in Seq(Messages)
  BY DEF KeepOn
<1>2. IsStep(step, <<>>, Seq(Messages), Messages)
  <2>1. <<>> \in Seq(Messages)
    OBVIOUS
  <2> QED BY <1>1, <2>1 DEF IsStep
<1>3. \A p \in Seq(Messages), m \in Messages : step[<<p, m>>] = KeepOn(IsResult(m), p, m)
  OBVIOUS
<1> HIDE DEF step
<1>4. ASSUME NEW list \in Seq(Messages)
      PROVE  \E f : Folds(f, Seq(Messages), step, <<>>, list, Len(list)) /\ Kept(IsResult, list) = f[Len(list)]
  <2> DEFINE Is(f) == f = [i \in 0 .. Len(list) |->
                              IF i = 0 THEN <<>> ELSE KeepOn(IsResult(list[i]), f[i - 1], list[i])]
  <2>1. PICK g \in [0 .. Len(list) -> Seq(Messages)] : IsFold(g, step, <<>>, list, Len(list))
    BY <1>2, FoldExists DEF IsStep
  <2>2. \A i \in 1 .. Len(list) : g[i - 1] \in Seq(Messages) /\ list[i] \in Messages
    OBVIOUS
  <2>3. Is(g)
    <3>1. \A i \in 1 .. Len(list) : g[i] = KeepOn(IsResult(list[i]), g[i - 1], list[i])
      BY <1>3, <2>1, <2>2 DEF IsFold
    <3> QED BY <2>1, <3>1 DEF IsFold
  <2>4. PICK h : Is(h) /\ Kept(IsResult, list) = h[Len(list)]
    BY <2>3 DEF Kept, Fold, KeepOn
  <2>5. Folds(h, Seq(Messages), step, <<>>, list, Len(list))
    <3>1. h[0] = <<>> /\ \A i \in 1 .. Len(list) : h[i] = KeepOn(IsResult(list[i]), h[i - 1], list[i])
      BY <2>4
    <3> QED BY <1>3, <2>2, <3>1 DEF Folds
  <2> QED BY <2>4, <2>5
<1>5. IsLoop(value, step, <<>>, Seq(Messages), Messages)
  BY <1>4 DEF IsLoop
<1>6. /\ value[<<>>] = <<>>
      /\ \A list \in Seq(Messages) :
            value[list] \in Seq(Messages) /\ \A m \in Messages : value[Append(list, m)] = step[<<value[list], m>>]
  <2> HIDE DEF value
  <2> QED BY <1>2, <1>5, LoopLaw
<1>7. <<>> \in Seq(Messages) /\ \A list \in Seq(Messages), m \in Messages : Append(list, m) \in Seq(Messages)
  OBVIOUS
<1>8. \A list \in Seq(Messages) : value[list] = Kept(IsResult, list)
  OBVIOUS
<1> HIDE DEF value
<1>9. Kept(IsResult, <<>>) = <<>>
  BY <1>6, <1>7, <1>8
<1>10. ASSUME NEW list \in Seq(Messages) PROVE Kept(IsResult, list) \in Seq(Messages) /\ value[list] = Kept(IsResult, list)
  BY <1>6, <1>8, <1>10
<1>11. ASSUME NEW list \in Seq(Messages), NEW m \in Messages
       PROVE  Kept(IsResult, Append(list, m)) = KeepOn(IsResult(m), Kept(IsResult, list), m)
  <2>1. Append(list, m) \in Seq(Messages)
    BY <1>7
  <2>2. value[Append(list, m)] = step[<<Kept(IsResult, list), m>>]
    BY <1>6, <1>10
  <2> QED BY <1>3, <1>8, <1>10, <2>1, <2>2
<1> QED BY <1>9, <1>10, <1>11

LEMMA KeepingFresh ==
    /\ Kept(Fresh, <<>>) = <<>>
    /\ \A list \in Seq(Messages) :
          /\ Kept(Fresh, list) \in Seq(Messages)
          /\ \A m \in Messages : Kept(Fresh, Append(list, m)) = KeepOn(Fresh(m), Kept(Fresh, list), m)
<1> DEFINE step == [x \in Seq(Messages) \X Messages |-> KeepOn(Fresh(x[2]), x[1], x[2])]
           value == [list \in Seq(Messages) |-> Kept(Fresh, list)]
<1>1. \A p \in Seq(Messages), m \in Messages : KeepOn(Fresh(m), p, m) \in Seq(Messages)
  BY DEF KeepOn
<1>2. IsStep(step, <<>>, Seq(Messages), Messages)
  <2>1. <<>> \in Seq(Messages)
    OBVIOUS
  <2> QED BY <1>1, <2>1 DEF IsStep
<1>3. \A p \in Seq(Messages), m \in Messages : step[<<p, m>>] = KeepOn(Fresh(m), p, m)
  OBVIOUS
<1> HIDE DEF step
<1>4. ASSUME NEW list \in Seq(Messages)
      PROVE  \E f : Folds(f, Seq(Messages), step, <<>>, list, Len(list)) /\ Kept(Fresh, list) = f[Len(list)]
  <2> DEFINE Is(f) == f = [i \in 0 .. Len(list) |->
                              IF i = 0 THEN <<>> ELSE KeepOn(Fresh(list[i]), f[i - 1], list[i])]
  <2>1. PICK g \in [0 .. Len(list) -> Seq(Messages)] : IsFold(g, step, <<>>, list, Len(list))
    BY <1>2, FoldExists DEF IsStep
  <2>2. \A i \in 1 .. Len(list) : g[i - 1] \in Seq(Messages) /\ list[i] \in Messages
    OBVIOUS
  <2>3. Is(g)
    <3>1. \A i \in 1 .. Len(list) : g[i] = KeepOn(Fresh(list[i]), g[i - 1], list[i])
      BY <1>3, <2>1, <2>2 DEF IsFold
    <3> QED BY <2>1, <3>1 DEF IsFold
  <2>4. PICK h : Is(h) /\ Kept(Fresh, list) = h[Len(list)]
    BY <2>3 DEF Kept, Fold, KeepOn
  <2>5. Folds(h, Seq(Messages), step, <<>>, list, Len(list))
    <3>1. h[0] = <<>> /\ \A i \in 1 .. Len(list) : h[i] = KeepOn(Fresh(list[i]), h[i - 1], list[i])
      BY <2>4
    <3> QED BY <1>3, <2>2, <3>1 DEF Folds
  <2> QED BY <2>4, <2>5
<1>5. IsLoop(value, step, <<>>, Seq(Messages), Messages)
  BY <1>4 DEF IsLoop
<1>6. /\ value[<<>>] = <<>>
      /\ \A list \in Seq(Messages) :
            value[list] \in Seq(Messages) /\ \A m \in Messages : value[Append(list, m)] = step[<<value[list], m>>]
  <2> HIDE DEF value
  <2> QED BY <1>2, <1>5, LoopLaw
<1>7. <<>> \in Seq(Messages) /\ \A list \in Seq(Messages), m \in Messages : Append(list, m) \in Seq(Messages)
  OBVIOUS
<1>8. \A list \in Seq(Messages) : value[list] = Kept(Fresh, list)
  OBVIOUS
<1> HIDE DEF value
<1>9. Kept(Fresh, <<>>) = <<>>
  BY <1>6, <1>7, <1>8
<1>10. ASSUME NEW list \in Seq(Messages) PROVE Kept(Fresh, list) \in Seq(Messages) /\ value[list] = Kept(Fresh, list)
  BY <1>6, <1>8, <1>10
<1>11. ASSUME NEW list \in Seq(Messages), NEW m \in Messages
       PROVE  Kept(Fresh, Append(list, m)) = KeepOn(Fresh(m), Kept(Fresh, list), m)
  <2>1. Append(list, m) \in Seq(Messages)
    BY <1>7
  <2>2. value[Append(list, m)] = step[<<Kept(Fresh, list), m>>]
    BY <1>6, <1>10
  <2> QED BY <1>3, <1>8, <1>10, <2>1, <2>2
<1> QED BY <1>9, <1>10, <1>11

LEMMA KeepingWhole ==
    /\ Kept(IsWhole, <<>>) = <<>>
    /\ \A list \in Seq(Messages) :
          /\ Kept(IsWhole, list) \in Seq(Messages)
          /\ \A m \in Messages : Kept(IsWhole, Append(list, m)) = KeepOn(IsWhole(m), Kept(IsWhole, list), m)
<1> DEFINE step == [x \in Seq(Messages) \X Messages |-> KeepOn(IsWhole(x[2]), x[1], x[2])]
           value == [list \in Seq(Messages) |-> Kept(IsWhole, list)]
<1>1. \A p \in Seq(Messages), m \in Messages : KeepOn(IsWhole(m), p, m) \in Seq(Messages)
  BY DEF KeepOn
<1>2. IsStep(step, <<>>, Seq(Messages), Messages)
  <2>1. <<>> \in Seq(Messages)
    OBVIOUS
  <2> QED BY <1>1, <2>1 DEF IsStep
<1>3. \A p \in Seq(Messages), m \in Messages : step[<<p, m>>] = KeepOn(IsWhole(m), p, m)
  OBVIOUS
<1> HIDE DEF step
<1>4. ASSUME NEW list \in Seq(Messages)
      PROVE  \E f : Folds(f, Seq(Messages), step, <<>>, list, Len(list)) /\ Kept(IsWhole, list) = f[Len(list)]
  <2> DEFINE Is(f) == f = [i \in 0 .. Len(list) |->
                              IF i = 0 THEN <<>> ELSE KeepOn(IsWhole(list[i]), f[i - 1], list[i])]
  <2>1. PICK g \in [0 .. Len(list) -> Seq(Messages)] : IsFold(g, step, <<>>, list, Len(list))
    BY <1>2, FoldExists DEF IsStep
  <2>2. \A i \in 1 .. Len(list) : g[i - 1] \in Seq(Messages) /\ list[i] \in Messages
    OBVIOUS
  <2>3. Is(g)
    <3>1. \A i \in 1 .. Len(list) : g[i] = KeepOn(IsWhole(list[i]), g[i - 1], list[i])
      BY <1>3, <2>1, <2>2 DEF IsFold
    <3> QED BY <2>1, <3>1 DEF IsFold
  <2>4. PICK h : Is(h) /\ Kept(IsWhole, list) = h[Len(list)]
    BY <2>3 DEF Kept, Fold, KeepOn
  <2>5. Folds(h, Seq(Messages), step, <<>>, list, Len(list))
    <3>1. h[0] = <<>> /\ \A i \in 1 .. Len(list) : h[i] = KeepOn(IsWhole(list[i]), h[i - 1], list[i])
      BY <2>4
    <3> QED BY <1>3, <2>2, <3>1 DEF Folds
  <2> QED BY <2>4, <2>5
<1>5. IsLoop(value, step, <<>>, Seq(Messages), Messages)
  BY <1>4 DEF IsLoop
<1>6. /\ value[<<>>] = <<>>
      /\ \A list \in Seq(Messages) :
            value[list] \in Seq(Messages) /\ \A m \in Messages : value[Append(list, m)] = step[<<value[list], m>>]
  <2> HIDE DEF value
  <2> QED BY <1>2, <1>5, LoopLaw
<1>7. <<>> \in Seq(Messages) /\ \A list \in Seq(Messages), m \in Messages : Append(list, m) \in Seq(Messages)
  OBVIOUS
<1>8. \A list \in Seq(Messages) : value[list] = Kept(IsWhole, list)
  OBVIOUS
<1> HIDE DEF value
<1>9. Kept(IsWhole, <<>>) = <<>>
  BY <1>6, <1>7, <1>8
<1>10. ASSUME NEW list \in Seq(Messages) PROVE Kept(IsWhole, list) \in Seq(Messages) /\ value[list] = Kept(IsWhole, list)
  BY <1>6, <1>8, <1>10
<1>11. ASSUME NEW list \in Seq(Messages), NEW m \in Messages
       PROVE  Kept(IsWhole, Append(list, m)) = KeepOn(IsWhole(m), Kept(IsWhole, list), m)
  <2>1. Append(list, m) \in Seq(Messages)
    BY <1>7
  <2>2. value[Append(list, m)] = step[<<Kept(IsWhole, list), m>>]
    BY <1>6, <1>10
  <2> QED BY <1>3, <1>8, <1>10, <2>1, <2>2
<1> QED BY <1>9, <1>10, <1>11

LEMMA KeepingShown ==
    /\ Kept(IsShown, <<>>) = <<>>
    /\ \A list \in Seq(Messages) :
          /\ Kept(IsShown, list) \in Seq(Messages)
          /\ \A m \in Messages : Kept(IsShown, Append(list, m)) = KeepOn(IsShown(m), Kept(IsShown, list), m)
<1> DEFINE step == [x \in Seq(Messages) \X Messages |-> KeepOn(IsShown(x[2]), x[1], x[2])]
           value == [list \in Seq(Messages) |-> Kept(IsShown, list)]
<1>1. \A p \in Seq(Messages), m \in Messages : KeepOn(IsShown(m), p, m) \in Seq(Messages)
  BY DEF KeepOn
<1>2. IsStep(step, <<>>, Seq(Messages), Messages)
  <2>1. <<>> \in Seq(Messages)
    OBVIOUS
  <2> QED BY <1>1, <2>1 DEF IsStep
<1>3. \A p \in Seq(Messages), m \in Messages : step[<<p, m>>] = KeepOn(IsShown(m), p, m)
  OBVIOUS
<1> HIDE DEF step
<1>4. ASSUME NEW list \in Seq(Messages)
      PROVE  \E f : Folds(f, Seq(Messages), step, <<>>, list, Len(list)) /\ Kept(IsShown, list) = f[Len(list)]
  <2> DEFINE Is(f) == f = [i \in 0 .. Len(list) |->
                              IF i = 0 THEN <<>> ELSE KeepOn(IsShown(list[i]), f[i - 1], list[i])]
  <2>1. PICK g \in [0 .. Len(list) -> Seq(Messages)] : IsFold(g, step, <<>>, list, Len(list))
    BY <1>2, FoldExists DEF IsStep
  <2>2. \A i \in 1 .. Len(list) : g[i - 1] \in Seq(Messages) /\ list[i] \in Messages
    OBVIOUS
  <2>3. Is(g)
    <3>1. \A i \in 1 .. Len(list) : g[i] = KeepOn(IsShown(list[i]), g[i - 1], list[i])
      BY <1>3, <2>1, <2>2 DEF IsFold
    <3> QED BY <2>1, <3>1 DEF IsFold
  <2>4. PICK h : Is(h) /\ Kept(IsShown, list) = h[Len(list)]
    BY <2>3 DEF Kept, Fold, KeepOn
  <2>5. Folds(h, Seq(Messages), step, <<>>, list, Len(list))
    <3>1. h[0] = <<>> /\ \A i \in 1 .. Len(list) : h[i] = KeepOn(IsShown(list[i]), h[i - 1], list[i])
      BY <2>4
    <3> QED BY <1>3, <2>2, <3>1 DEF Folds
  <2> QED BY <2>4, <2>5
<1>5. IsLoop(value, step, <<>>, Seq(Messages), Messages)
  BY <1>4 DEF IsLoop
<1>6. /\ value[<<>>] = <<>>
      /\ \A list \in Seq(Messages) :
            value[list] \in Seq(Messages) /\ \A m \in Messages : value[Append(list, m)] = step[<<value[list], m>>]
  <2> HIDE DEF value
  <2> QED BY <1>2, <1>5, LoopLaw
<1>7. <<>> \in Seq(Messages) /\ \A list \in Seq(Messages), m \in Messages : Append(list, m) \in Seq(Messages)
  OBVIOUS
<1>8. \A list \in Seq(Messages) : value[list] = Kept(IsShown, list)
  OBVIOUS
<1> HIDE DEF value
<1>9. Kept(IsShown, <<>>) = <<>>
  BY <1>6, <1>7, <1>8
<1>10. ASSUME NEW list \in Seq(Messages) PROVE Kept(IsShown, list) \in Seq(Messages) /\ value[list] = Kept(IsShown, list)
  BY <1>6, <1>8, <1>10
<1>11. ASSUME NEW list \in Seq(Messages), NEW m \in Messages
       PROVE  Kept(IsShown, Append(list, m)) = KeepOn(IsShown(m), Kept(IsShown, list), m)
  <2>1. Append(list, m) \in Seq(Messages)
    BY <1>7
  <2>2. value[Append(list, m)] = step[<<Kept(IsShown, list), m>>]
    BY <1>6, <1>10
  <2> QED BY <1>3, <1>8, <1>10, <2>1, <2>2
<1> QED BY <1>9, <1>10, <1>11

-------------------------------------------------------------------------------
(***************************************************************************)
(* What the variables hold.                                                *)
(***************************************************************************)
Stages == {"start", "resumed", "replaying", "open", "finished"}
Blocks == [index : Indexes, tool : OrNone] \cup {NoBlock}
CallSet == [tool : Tools, input : Seq(Tools)]

(* The messages of a managed session.                                       *)
IsManaged(m) ==
    /\ ~m.old
    /\ m.type \in {"assistant", "user", "result", "artifact", "session_files"}
    /\ m.type = "assistant" => m.kind \in {"text"} \cup ToolUses
    /\ m.type = "user" => m.kind = "toolResult"
    /\ m.type = "result" => m.kind \in {"requires_action", "error", "success"}
Managed == {m \in Messages : IsManaged(m)}

AgentSet ==
    [stage : Stages, resumed : BOOLEAN, open : [Authors -> Blocks], used : SUBSET Tools,
     blocking : SUBSET Tools, yields : Seq(Managed), queries : Nat]
HandlerSet ==
    [calls : [Indexes -> CallSet \cup {None}], current : Subagents \cup {None},
     inBlock : BOOLEAN, inPrefix : BOOLEAN]

TypeInv ==
    /\ turn \in TurnKinds
    /\ agent \in AgentSet /\ (agent.yields # <<>> => turn.managed)
    /\ handler \in HandlerSet
    /\ frames \in Seq(FrameSet)
    /\ messages \in Seq(Messages) /\ said \in Seq(Messages)
    /\ outcome = [status |-> outcome.status, interaction |-> outcome.interaction,
                  error |-> outcome.error, task |-> outcome.task]
    /\ outcome.status \in {"running", "ended", "aborted", "failed"}

(***************************************************************************)
(* What a message that is sent is, and what it makes of the agent.         *)
(***************************************************************************)
Moved(stage) == agent' = [agent EXCEPT !.stage = stage]
Opens(m) ==
    /\ agent.stage = "start" /\ m = Message("system", "init")
    /\ Moved("resumed") \/ Moved("open")
Repeats(m) ==
    /\ agent.stage = "replaying" \/ (agent.stage = "resumed" /\ IsReplay(m))
    /\ m.old /\ m.tool = None
    /\ \/ IsReplay(m) \/ m.type = "result"
       \/ m.type = "assistant" /\ m.kind = "text"
    /\ Moved("replaying")
Echoes(m) ==
    /\ agent.stage \in {"resumed", "replaying"} /\ m = Message("user", "prompt")
    /\ Moved("open")
Tells(m) ==
    /\ m.type \in {"assistant", "user"} /\ m.tool = None
    /\ m.kind \in {"text", "failing", "refusal", "stopped", "denied", "noise"}
    /\ m.type = "user" => m.kind \in {"denied", "noise"}
    /\ Moved("open")
Deltas(m) == m.type = "stream_event" /\ m.kind = "delta" /\ Moved("open")
Starts(m) ==
    /\ m.type = "stream_event" /\ m.kind = (IF m.tool = None THEN "textStart" ELSE "toolStart")
    /\ agent.open[m.by] = NoBlock /\ m.tool \notin agent.used
    /\ agent' = [agent EXCEPT !.stage = "open", !.open[m.by] = [index |-> m.index, tool |-> m.tool],
                              !.used = IF m.tool = None THEN @ ELSE @ \cup {m.tool}]
Goes(m) ==
    /\ m.type = "stream_event" /\ m.kind \in {"input", "stop"}
    /\ agent.open[m.by] # NoBlock
    /\ m.index = agent.open[m.by].index /\ m.tool = agent.open[m.by].tool
    /\ agent' = [agent EXCEPT !.open[m.by] = IF m.kind = "stop" THEN NoBlock ELSE @]
Works(m) ==
    /\ IsTaskCall(m) /\ m.tool \notin agent.used
    /\ agent' = [agent EXCEPT !.stage = "open", !.used = @ \cup {m.tool}]
Answers(m) ==
    /\ m.type = "user" /\ m.kind \in {"answered", "refused"}
    /\ m.tool \in Called \ Answered /\ m.ids = {Applied}
    /\ agent' = agent
Concludes(m) == m.type = "result" /\ Moved("finished")
Utters(m) ==
    /\ agent.stage \in SpeakAfter /\ ~m.old
    /\ \/ Tells(m) \/ Deltas(m) \/ Starts(m) \/ Goes(m)
       \/ Works(m) \/ Answers(m) \/ Concludes(m)
Yields(m) ==
    /\ turn.managed /\ agent.yields # <<>> /\ m = Head(agent.yields)
    /\ agent' = [agent EXCEPT !.yields = Tail(@)]

Sends(m) ==
    /\ Handle(m)
    /\ outcome.status = "running" /\ UNCHANGED <<turn, outcome>>
    /\ Yields(m) \/ (~turn.managed /\ (Opens(m) \/ Repeats(m) \/ Echoes(m) \/ Utters(m)))
Closes == EndQuery \/ AbortQuery \/ FailQuery \/ EmptyQuery

LEMMA Words ==
    /\ "stream_event" \in Types /\ "user" \in Types /\ "assistant" \in Types
    /\ "system" \in Types /\ "result" \in Types
    /\ {"delta", "textStart", "toolStart", "input", "stop", "update", "list", "answered",
        "refused", "text", "failing", "refusal", "stopped", "denied", "noise"} \subseteq Kinds
    /\ "init" \in Kinds /\ "replay" \in Kinds /\ "prompt" \in Kinds /\ "text" \in Kinds
BY DEF Types, Kinds

Made(m, type, kind) ==
    /\ m \in Raw /\ m.type = type /\ m.kind = kind
    /\ m.by = Main /\ m.tool = None /\ m.index = 0 /\ m.ids = {} /\ m.old = FALSE

LEMMA MessageFacts ==
    ASSUME NEW type \in Types, NEW kind \in Kinds
    PROVE  Made(Message(type, kind), type, kind)
<1>1. Main \in Authors /\ None \in OrNone /\ {} \in SUBSET OrNone /\ 0 \in Indexes \cup {0}
  BY DEF Authors, OrNone
<1> QED BY <1>1 DEF Message, Raw, Made

LEMMA MessageChanged ==
    ASSUME NEW m \in Raw, NEW by \in Authors, NEW tool \in OrNone, NEW index \in Indexes \cup {0},
           NEW ids \in SUBSET OrNone, NEW old \in BOOLEAN
    PROVE  /\ [m EXCEPT !.by = by] \in Raw /\ [m EXCEPT !.old = old] \in Raw
           /\ [m EXCEPT !.tool = tool] \in Raw /\ [m EXCEPT !.ids = ids] \in Raw
           /\ [m EXCEPT !.by = by, !.index = index, !.tool = tool] \in Raw
           /\ [m EXCEPT !.tool = tool, !.ids = ids] \in Raw
BY DEF Raw

LEMMA LocalMade ==
    /\ Made(Message("system", "init"), "system", "init")
    /\ Made(Message("user", "replay"), "user", "replay")
    /\ Made(Message("user", "prompt"), "user", "prompt")
    /\ Made(Message("assistant", "text"), "assistant", "text")
<1>1. Made(Message("system", "init"), "system", "init")
  BY Words, MessageFacts
<1>2. Made(Message("user", "replay"), "user", "replay")
  BY Words, MessageFacts
<1>3. Made(Message("user", "prompt"), "user", "prompt")
  BY Words, MessageFacts
<1>4. Made(Message("assistant", "text"), "assistant", "text")
  BY Words, MessageFacts
<1> QED BY <1>1, <1>2, <1>3, <1>4

(* A message of no tool is well made, unless it is an answer.               *)
LEMMA ToolLess ==
    ASSUME NEW m \in Raw, m.type = "stream_event" => m.kind = "delta",
           m.type = "user" => m.kind # "answered",
           m.type = "assistant" => m.kind \in {"text", "failing", "refusal", "stopped"}
    PROVE  m \in Messages
<1>1. ~IsAnswer(m)
  BY DEF IsAnswer
<1>2. ~IsToolUse(m) /\ ~IsTaskCall(m)
  BY DEF IsToolUse, IsTaskCall, ToolUses
<1> QED BY <1>1, <1>2 DEF Messages, WellMade

LEMMA Steps == TypeInv /\ Next => \/ \E m \in Messages : Sends(m)
                                  \/ ManagedEvent \/ Closes \/ RetryQuery
<1> SUFFICES ASSUME TypeInv, Next
             PROVE  \/ \E m \in Messages : Sends(m)
                    \/ ManagedEvent \/ Closes \/ RetryQuery
  OBVIOUS
<1>1. /\ Main \in Authors /\ None \in OrNone /\ {} \in SUBSET OrNone /\ 0 \in Indexes \cup {0}
      /\ None \notin Tools /\ None \notin Indexes
  BY NamesAssumption DEF Authors, OrNone
<1>3. CASE SystemInit
  <2>1. Message("system", "init") \in Messages
    <3> DEFINE m == Message("system", "init")
    <3>1. Made(m, "system", "init")
      BY LocalMade
    <3> HIDE DEF m
    <3>2. m \in Raw /\ m.type = "system" /\ m.kind = "init"
      BY <3>1 DEF Made
    <3>3. m \in Messages
      BY <3>2, ToolLess
    <3> QED BY <3>3 DEF m
  <2>2. Sends(Message("system", "init"))
    BY <1>3 DEF SystemInit, LocalTurn, Active, Sends, Opens, Moved
  <2> QED BY <2>1, <2>2
<1>4. CASE Repeat
  <2>1. PICK m \in {Message("user", "replay"), Message("assistant", "text")}
                   \cup {Message("result", kind) : kind \in Results} :
               (agent.stage = "resumed" => IsReplay(m)) /\ Handle([m EXCEPT !.old = TRUE])
    BY <1>4 DEF Repeat
  <2>2. /\ m \in Raw /\ m.tool = None
        /\ \/ m.type = "user" /\ m.kind = "replay"
           \/ m.type = "assistant" /\ m.kind = "text"
           \/ m.type = "result"
    <3>1. Results \subseteq Kinds
      BY DEF Results, LocalResults, Kinds
    <3>2. CASE m = Message("user", "replay")
      <4>1. Made(m, "user", "replay")
        BY <3>2, LocalMade
      <4> QED BY <4>1 DEF Made
    <3>3. CASE m = Message("assistant", "text")
      <4>1. Made(m, "assistant", "text")
        BY <3>3, LocalMade
      <4> QED BY <4>1 DEF Made
    <3>4. ASSUME NEW kind \in Results, m = Message("result", kind) PROVE m \in Raw /\ m.tool = None /\ m.type = "result"
      <4>1. kind \in Kinds
        BY <3>1
      <4>2. Made(m, "result", kind)
        BY <3>4, <4>1, Words, MessageFacts
      <4> QED BY <4>2 DEF Made
    <3> QED BY <2>1, <3>2, <3>3, <3>4
  <2> DEFINE n == [m EXCEPT !.old = TRUE]
  <2>3. n \in Raw /\ n.type = m.type /\ n.kind = m.kind /\ n.tool = None /\ n.old
    BY <2>2 DEF Raw
  <2>4. Handle(n) /\ outcome.status = "running" /\ ~turn.managed /\ UNCHANGED <<turn, outcome>>
    BY <1>4, <2>1 DEF Repeat, LocalTurn, Active
  <2> HIDE DEF n
  <2>5. n \in Messages
    BY <2>2, <2>3, ToolLess
  <2>6. Repeats(n)
    BY <1>4, <2>1, <2>2, <2>3 DEF Repeat, Repeats, IsReplay, Moved
  <2> QED BY <2>4, <2>5, <2>6 DEF Sends
<1>5. CASE EchoPrompt
  <2>1. Message("user", "prompt") \in Messages
    <3> DEFINE m == Message("user", "prompt")
    <3>1. Made(m, "user", "prompt")
      BY LocalMade
    <3> HIDE DEF m
    <3>2. m \in Raw /\ m.type = "user" /\ m.kind = "prompt"
      BY <3>1 DEF Made
    <3>3. m \in Messages
      BY <3>2, ToolLess
    <3> QED BY <3>3 DEF m
  <2>2. Sends(Message("user", "prompt"))
    BY <1>5 DEF EchoPrompt, LocalTurn, Active, Sends, Echoes, Moved
  <2> QED BY <2>1, <2>2
<1>6. ASSUME NEW m, Speak(m), ~m.old,
             Tells(m) \/ Deltas(m) \/ Starts(m) \/ Goes(m) \/ Works(m) \/ Answers(m) \/ Concludes(m)
      PROVE  Sends(m)
  BY <1>6 DEF Speak, LocalTurn, Active, Sends, Utters
<1>7. CASE LocalSpeaks
  <2>1. ASSUME NEW a \in Authors, TextDelta(a) PROVE \E m \in Messages : Sends(m)
    <3> DEFINE o == Message("stream_event", "delta")
               m == [o EXCEPT !.by = a]
    <3>0. Made(o, "stream_event", "delta")
      BY MessageFacts, Words
    <3> HIDE DEF o
    <3>1. o \in Raw /\ o.type = "stream_event" /\ o.kind = "delta" /\ o.old = FALSE
      BY <3>0 DEF Made
    <3>2. m \in Raw /\ m.type = "stream_event" /\ m.kind = "delta" /\ ~m.old
      BY <3>1 DEF Raw
    <3>3. Speak(m) /\ Moved("open")
      BY <2>1 DEF TextDelta, Moved, o
    <3> HIDE DEF m
    <3> QED BY <1>6, <3>2, <3>3, ToolLess DEF Deltas
  <2>2. ASSUME NEW a \in Authors, NEW i \in Indexes, NEW t \in Tools \cup {None}, StartBlock(a, i, t)
        PROVE  \E m \in Messages : Sends(m)
    <3> DEFINE kind == IF t = None THEN "textStart" ELSE "toolStart"
               o == Message("stream_event", kind)
               m == [o EXCEPT !.by = a, !.index = i, !.tool = t]
    <3>0. Made(o, "stream_event", kind)
      <4>1. kind \in Kinds
        BY Words
      <4> HIDE DEF kind
      <4> QED BY <4>1, MessageFacts, Words
    <3>1. o \in Raw /\ o.type = "stream_event" /\ o.kind = kind /\ o.old = FALSE
      <4> HIDE DEF o, kind
      <4> QED BY <3>0 DEF Made
    <3>2. /\ m \in Raw /\ m.type = "stream_event" /\ m.kind = kind /\ ~m.old
          /\ m.by = a /\ m.index = i /\ m.tool = t
      <4>1. t \in OrNone
        BY DEF OrNone
      <4> HIDE DEF o, kind
      <4> QED BY <3>1, <4>1 DEF Raw
    <3>3. Speak(m)
      BY <2>2 DEF StartBlock
    <3>4. Starts(m)
      <4> HIDE DEF m
      <4> QED BY <2>2, <3>2 DEF StartBlock, Starts
    <3>5. m \in Messages
      <4> HIDE DEF m
      <4> QED BY <3>2 DEF Messages, WellMade, IsAnswer, IsToolUse, IsTaskCall
    <3> HIDE DEF m
    <3> QED BY <1>6, <3>2, <3>3, <3>4, <3>5
  <2>3. ASSUME NEW a \in Authors, NEW kind \in {"input", "stop"}, InBlock(a, kind)
        PROVE  \E m \in Messages : Sends(m)
    <3> DEFINE b == agent.open[a]
               o == Message("stream_event", kind)
               m == [o EXCEPT !.by = a, !.index = b.index, !.tool = b.tool]
    <3>1. b \in Blocks /\ b # NoBlock /\ (kind = "input" => b.tool # None)
      BY <2>3 DEF InBlock, TypeInv, AgentSet
    <3>2. b.tool \in OrNone /\ b.index \in Indexes
      BY <3>1 DEF Blocks
    <3>0. Made(o, "stream_event", kind)
      BY MessageFacts, Words
    <3>3. o \in Raw /\ o.type = "stream_event" /\ o.kind = kind /\ o.old = FALSE
      <4> HIDE DEF o
      <4> QED BY <3>0 DEF Made
    <3>4. /\ m \in Raw /\ m.type = "stream_event" /\ m.kind = kind /\ ~m.old
          /\ m.by = a /\ m.index = b.index /\ m.tool = b.tool
      <4> HIDE DEF o, b
      <4> QED BY <3>2, <3>3 DEF Raw
    <3>5. Speak(m)
      BY <2>3 DEF InBlock
    <3>6. Goes(m)
      <4> HIDE DEF m
      <4> QED BY <2>3, <3>1, <3>4 DEF InBlock, Goes
    <3>7. m \in Messages
      <4> HIDE DEF m, b
      <4> QED BY <3>1, <3>2, <3>4 DEF Messages, WellMade, IsAnswer, IsToolUse, IsTaskCall, OrNone
    <3> HIDE DEF m
    <3> QED BY <1>6, <3>4, <3>5, <3>6, <3>7
  <2>4. ASSUME NEW t \in Tools, NEW kind \in {"update", "list"}, UseTaskTool(kind, t)
        PROVE  \E m \in Messages : Sends(m)
    <3> DEFINE m == TaskCall(kind, t)
    <3>1. /\ m \in Raw /\ m.type = "assistant" /\ m.kind = kind /\ ~m.old /\ m.tool = t
      <4>1. PICK o : /\ o = Message("assistant", kind) /\ o \in Raw
                     /\ o.type = "assistant" /\ o.kind = kind /\ o.old = FALSE
        <5>1. kind \in Kinds /\ "assistant" \in Types
          BY Words
        <5>2. Made(Message("assistant", kind), "assistant", kind)
          BY <5>1, MessageFacts
        <5> QED BY <5>2 DEF Made
      <4>2. m = [o EXCEPT !.tool = t] /\ t \in OrNone
        BY <4>1 DEF TaskCall, OrNone
      <4> QED BY <4>1, <4>2 DEF Raw
    <3>2. Speak(m)
      BY <2>4 DEF UseTaskTool
    <3> HIDE DEF m
    <3>3. Works(m)
      BY <2>4, <3>1 DEF UseTaskTool, Works, IsTaskCall
    <3>4. m \in Messages
      BY <3>1 DEF Messages, WellMade, IsAnswer, IsToolUse, IsTaskCall
    <3> QED BY <1>6, <3>1, <3>2, <3>3, <3>4
  <2>5. ASSUME NEW t \in Tools, NEW kind \in {"answered", "refused"}, AnswerTaskTool(kind, t)
        PROVE  \E m \in Messages : Sends(m)
    <3> DEFINE m == TaskAnswer(kind, t, {Applied})
    <3>1. Applied \in OrNone
      <4>1. Effect(said) \in Effects
        BY CarryingOut DEF TypeInv
      <4>2. Applied = Effect(said).status
        BY DEF Applied, Effect, NoEffect
      <4> QED BY <4>1, <4>2 DEF Effects
    <3>2. /\ m \in Raw /\ m.type = "user" /\ m.kind = kind /\ ~m.old /\ m.tool = t /\ m.ids = {Applied}
      <4>1. PICK o : /\ o = Message("user", kind) /\ o \in Raw
                     /\ o.type = "user" /\ o.kind = kind /\ o.old = FALSE
        <5>1. kind \in Kinds /\ "user" \in Types
          BY Words
        <5>2. Made(Message("user", kind), "user", kind)
          BY <5>1, MessageFacts
        <5> QED BY <5>2 DEF Made
      <4>2. PICK s : s = Applied /\ s \in OrNone
        BY <3>1
      <4>3. m = [o EXCEPT !.tool = t, !.ids = {s}] /\ t \in OrNone
        BY <4>1, <4>2 DEF TaskAnswer, OrNone
      <4> HIDE DEF m
      <4> QED BY <4>1, <4>2, <4>3 DEF Raw
    <3>3. Speak(m)
      BY <2>5 DEF AnswerTaskTool
    <3> HIDE DEF m
    <3>4. Answers(m)
      BY <2>5, <3>2 DEF AnswerTaskTool, Answers
    <3>5. m \in Messages
      BY <3>2 DEF Messages, WellMade, IsAnswer, IsToolUse, IsTaskCall
    <3> QED BY <1>6, <3>2, <3>3, <3>4, <3>5
  <2>6. ASSUME WholeMessage PROVE \E m \in Messages : Sends(m)
    <3>1. PICK m \in {Message("assistant", "text"), Message("assistant", "failing"),
                      Message("assistant", "refusal"), Message("assistant", "stopped"),
                      Message("user", "denied"), Message("user", "noise")} : Speak(m)
      BY <2>6 DEF WholeMessage
    <3>2. /\ m \in Raw /\ ~m.old /\ m.tool = None
          /\ \/ m.type = "assistant" /\ m.kind \in {"text", "failing", "refusal", "stopped"}
             \/ m.type = "user" /\ m.kind \in {"denied", "noise"}
      <4>1. PICK type \in Types, kind \in Kinds :
                /\ m = Message(type, kind)
                /\ \/ type = "assistant" /\ kind \in {"text", "failing", "refusal", "stopped"}
                   \/ type = "user" /\ kind \in {"denied", "noise"}
        BY Words
      <4>2. Made(m, type, kind)
        BY <4>1, MessageFacts
      <4> QED BY <4>1, <4>2 DEF Made
    <3>3. Moved("open")
      BY <2>6 DEF WholeMessage, Moved
    <3>4. Tells(m)
      BY <3>2, <3>3 DEF Tells
    <3>5. m \in Messages
      BY <3>2, ToolLess
    <3> QED BY <1>6, <3>1, <3>2, <3>4, <3>5
  <2>7. ASSUME Result PROVE \E m \in Messages : Sends(m)
    <3>1. PICK kind \in Results : Speak(Message("result", kind))
      BY <2>7 DEF Result
    <3>2. kind \in Kinds
      BY DEF Results, LocalResults, Kinds
    <3> DEFINE m == Message("result", kind)
    <3>0. Made(m, "result", kind)
      BY <3>2, MessageFacts, Words
    <3>3. m \in Raw /\ ~m.old /\ m.type = "result"
      <4> HIDE DEF m
      <4> QED BY <3>0 DEF Made
    <3>4. Speak(m) /\ Moved("finished")
      BY <2>7, <3>1 DEF Result, Moved
    <3> HIDE DEF m
    <3> QED BY <1>6, <3>3, <3>4, ToolLess DEF Concludes
  <2> QED BY <1>7, <2>1, <2>2, <2>3, <2>4, <2>5, <2>6, <2>7 DEF LocalSpeaks
<1>8. CASE ManagedYield
  <2>1. Head(agent.yields) \in Messages
    <3>1. agent.yields \in Seq(Managed) /\ agent.yields # <<>>
      BY <1>8 DEF ManagedYield, TypeInv, AgentSet
    <3>2. Head(agent.yields) \in Managed
      BY <3>1
    <3> QED BY <3>2 DEF Managed
  <2>2. Sends(Head(agent.yields))
    BY <1>8 DEF ManagedYield, Sends, Yields, TypeInv
  <2> QED BY <2>1, <2>2
<1> QED BY <1>3, <1>4, <1>5, <1>7, <1>8 DEF Next, Closes

(***************************************************************************)
(* Frames: those of a text, of an event, of a message, at the end.         *)
(***************************************************************************)
LEMMA Appended ==
    ASSUME NEW s \in Seq(FrameSet), NEW f \in FrameSet, NEW g \in FrameSet, NEW h \in FrameSet
    PROVE  /\ s \o <<>> = s /\ s \o <<f>> = Append(s, f)
           /\ s \o <<f, g>> = Append(Append(s, f), g)
           /\ s \o <<f, g, h>> = Append(Append(Append(s, f), g), h)
OBVIOUS

LEMMA Joined ==
    ASSUME NEW s \in Seq(FrameSet), NEW t \in Seq(FrameSet), NEW u \in Seq(FrameSet)
    PROVE  s \o t \in Seq(FrameSet) /\ s \o (t \o u) = (s \o t) \o u
OBVIOUS

LEMMA FrameFacts ==
    /\ \A kind \in FrameKinds : /\ Frame(kind) \in FrameSet /\ Frame(kind).kind = kind
                                /\ Frame(kind).by = Main /\ Frame(kind).message = None
    /\ Close \in FrameSet /\ Close.kind = "close"
    /\ \A a \in Authors : /\ Open(a) \in FrameSet /\ Open(a).kind = "open" /\ Open(a).by \in {a, None}
                          /\ Text(a) \in FrameSet /\ Text(a).kind = "text" /\ Text(a).by = a
    /\ \A m \in Messages :
          /\ [Frame("message") EXCEPT !.message = m] \in FrameSet
          /\ [Frame("message") EXCEPT !.message = m].kind = "message"
          /\ [Frame("message") EXCEPT !.message = m].message = m
<1>1. \A kind \in FrameKinds : /\ Frame(kind) \in FrameSet /\ Frame(kind).kind = kind
                               /\ Frame(kind).by = Main /\ Frame(kind).message = None
  <2>1. Main \in Authors /\ None \in OrNone /\ <<>> \in Seq(Tools) /\ None \in Messages \cup {None}
    BY DEF Authors, OrNone
  <2> QED BY <2>1 DEF Frame, FrameSet
<1>2. {"close", "open", "text", "call", "message"} \subseteq FrameKinds
  BY DEF FrameKinds
<1>3. Close \in FrameSet /\ Close.kind = "close"
  BY <1>1, <1>2 DEF Close
<1>4. ASSUME NEW a \in Authors
      PROVE  /\ Open(a) \in FrameSet /\ Open(a).kind = "open" /\ Open(a).by \in {a, None}
             /\ Text(a) \in FrameSet /\ Text(a).kind = "text" /\ Text(a).by = a
  <2>1. \A f \in FrameSet, b \in {a, None} :
            /\ [f EXCEPT !.by = b] \in FrameSet /\ [f EXCEPT !.by = b].kind = f.kind
            /\ [f EXCEPT !.by = b].by = b
    BY DEF FrameSet
  <2>2. PICK b \in {a, None} : b = (IF turn.names THEN a ELSE None)
    OBVIOUS
  <2>3. Open(a) = [Frame("open") EXCEPT !.by = b]
    BY <2>2 DEF Open
  <2>4. Frame("open") \in FrameSet /\ Frame("text") \in FrameSet
        /\ Frame("open").kind = "open" /\ Frame("text").kind = "text"
    BY <1>1, <1>2
  <2>5. /\ Open(a) \in FrameSet /\ Open(a).kind = "open" /\ Open(a).by = b
    BY <2>1, <2>3, <2>4
  <2>6. /\ Text(a) \in FrameSet /\ Text(a).kind = "text" /\ Text(a).by = a
    BY <2>1, <2>4 DEF Text
  <2> QED BY <2>5, <2>6
<1>5. ASSUME NEW m \in Messages
      PROVE  /\ [Frame("message") EXCEPT !.message = m] \in FrameSet
             /\ [Frame("message") EXCEPT !.message = m].kind = "message"
             /\ [Frame("message") EXCEPT !.message = m].message = m
  <2>1. PICK f : f = Frame("message") /\ f \in FrameSet /\ f.kind = "message"
    BY <1>1, <1>2
  <2> QED BY <2>1 DEF FrameSet
<1> QED BY <1>1, <1>3, <1>4, <1>5

(* What is shown of the input of a call.                                    *)
LEMMA ShownTyped ==
    ASSUME TypeInv, NEW input \in Seq(Tools)
    PROVE  Shown(input) \in Seq(Tools)
<1>1. turn.limit \in Nat
  BY DEF TypeInv, TurnKinds
<1>2. <<>> \in Seq(Tools)
  OBVIOUS
<1>3. turn.limit < Len(input) => SubSeq(input, 1, turn.limit) \in Seq(Tools)
  BY <1>1
<1> QED BY <1>1, <1>2, <1>3 DEF Shown

LEMMA CallFacts ==
    ASSUME TypeInv, NEW c \in CallSet
    PROVE  /\ Call(c) \in FrameSet /\ Call(c).kind = "call"
           /\ Call(c).tool = c.tool /\ Call(c).input = Shown(c.input)
<1>1. PICK f \in FrameSet : f = Frame("call") /\ f.kind = "call"
  BY FrameFacts DEF FrameKinds
<1>2. PICK t \in OrNone, i \in Seq(Tools) : t = c.tool /\ i = Shown(c.input)
  BY ShownTyped DEF CallSet, OrNone
<1>3. Call(c) = [f EXCEPT !.tool = t, !.input = i]
  BY <1>1, <1>2 DEF Call
<1> QED BY <1>1, <1>2, <1>3 DEF FrameSet

(* What streaming a text adds, block markers first.                         *)
LEMMA MessageFramed ==
    ASSUME NEW m \in Messages
    PROVE  \E f \in FrameSet : f = [Frame("message") EXCEPT !.message = m] /\ f.kind = "message" /\ f.message = m
<1> DEFINE f == [Frame("message") EXCEPT !.message = m]
<1>1. f \in FrameSet /\ f.kind = "message" /\ f.message = m
  BY FrameFacts
<1> QED BY <1>1

TextFrom(s, by, t) ==
    \/ ~TextShown(by) /\ t = s
    \/ TextShown(by) /\ ~LeavesBlock(by) /\ ~SwitchesBlock(by) /\ t = Append(s, Text(by))
    \/ TextShown(by) /\ LeavesBlock(by) /\ ~SwitchesBlock(by) /\ t = Append(Append(s, Close), Text(by))
    \/ TextShown(by) /\ ~LeavesBlock(by) /\ SwitchesBlock(by) /\ t = Append(Append(s, Open(by)), Text(by))
    \/ /\ TextShown(by) /\ LeavesBlock(by) /\ SwitchesBlock(by)
       /\ t = Append(Append(Append(s, Close), Open(by)), Text(by))

LEMMA TextFacts ==
    ASSUME NEW s \in Seq(FrameSet), NEW by \in Authors
    PROVE  TextFrom(s, by, s \o TextFrames(by))
<1>1. Close \in FrameSet /\ Open(by) \in FrameSet /\ Text(by) \in FrameSet
  BY FrameFacts
<1> DEFINE A == IF LeavesBlock(by) THEN << Close >> ELSE <<>>
           B == IF SwitchesBlock(by) THEN << Open(by) >> ELSE <<>>
           C == << Text(by) >>
<1>2. TextShown(by) => TextFrames(by) = A \o B \o C
  BY DEF TextFrames
<1>3. A \in Seq(FrameSet) /\ B \in Seq(FrameSet) /\ C \in Seq(FrameSet)
  BY <1>1
<1>4. /\ ~TextShown(by) => TextFrames(by) = <<>>
      /\ A = IF LeavesBlock(by) THEN << Close >> ELSE <<>>
      /\ B = IF SwitchesBlock(by) THEN << Open(by) >> ELSE <<>>
      /\ C = << Text(by) >>
  BY DEF TextFrames
<1> HIDE DEF A, B, C
<1>5. CASE TextShown(by)
  <2>1. s \o TextFrames(by) = ((s \o A) \o B) \o C
    <3>1. A \o B \in Seq(FrameSet) /\ s \o (A \o B) = (s \o A) \o B
      BY <1>3, Joined
    <3>2. s \o ((A \o B) \o C) = (s \o (A \o B)) \o C
      BY <1>3, <3>1, Joined
    <3> QED BY <1>2, <1>5, <3>1, <3>2
  <2>2. s \o A = IF LeavesBlock(by) THEN Append(s, Close) ELSE s
    BY <1>1, <1>4, Appended
  <2>3. (s \o A) \o B = IF SwitchesBlock(by) THEN Append(s \o A, Open(by)) ELSE s \o A
    <3>1. s \o A \in Seq(FrameSet)
      BY <1>3
    <3> QED BY <1>1, <1>4, <3>1, Appended
  <2>4. ((s \o A) \o B) \o C = Append((s \o A) \o B, Text(by))
    <3> DEFINE p == (s \o A) \o B
    <3>1. p \in Seq(FrameSet)
      BY <1>3
    <3> HIDE DEF p
    <3>2. p \o << Text(by) >> = Append(p, Text(by))
      BY <1>1, <3>1, Appended
    <3> QED BY <1>4, <3>2 DEF p
  <2> QED BY <1>5, <2>1, <2>2, <2>3, <2>4 DEF TextFrom
<1>6. CASE ~TextShown(by)
  BY <1>4, <1>6 DEF TextFrom
<1> QED BY <1>5, <1>6

(* What streaming a message adds: the message itself, then its text or the  *)
(* call that it ends.                                                       *)
Verbatim(m) ==
    IF Streams("messages") /\ ~IsNoise(m)
    THEN Append(frames, [Frame("message") EXCEPT !.message = m]) ELSE frames
ShowsText(m) == (m.type = "stream_event" /\ m.kind = "delta") \/ SpeaksWhole(m)
ShowsCall(m) ==
    /\ m.type = "stream_event" /\ m.kind = "stop" /\ CallAt(m) # None
    /\ ShowsTool(CallAt(m).tool)
Streamed(m) ==
    /\ Verbatim(m) \in Seq(FrameSet)
    /\ ShowsText(m) => TextFrom(Verbatim(m), m.by, frames') /\ handler' = AfterText(m.by)
    /\ ShowsCall(m) => /\ CallAt(m) \in CallSet
                       /\ frames' = Append(Verbatim(m), Call(CallAt(m)))
    /\ ~ShowsText(m) /\ ~ShowsCall(m) => frames' = Verbatim(m)
    /\ ~ShowsText(m) => handler' = IF m.type = "stream_event" THEN AfterEvent(m) ELSE handler

LEMMA StreamFacts ==
    ASSUME TypeInv, NEW m \in Messages, StreamMessage(m)
    PROVE  Streamed(m)
<1>1. frames \in Seq(FrameSet) /\ handler \in HandlerSet /\ m.by \in Authors
  BY DEF TypeInv, Messages, Raw
<1>2. [Frame("message") EXCEPT !.message = m] \in FrameSet
  BY FrameFacts
<1> DEFINE X == IF m.type = "stream_event" THEN EventFrames(m)
                ELSE IF SpeaksWhole(m) THEN TextFrames(m.by) ELSE <<>>
<1>3. frames' = (frames \o VerbatimFrames(m)) \o X
  BY DEF StreamMessage
<1>4. frames \o VerbatimFrames(m) = Verbatim(m) /\ Verbatim(m) \in Seq(FrameSet)
  <2>1. PICK f \in FrameSet : f = [Frame("message") EXCEPT !.message = m]
    BY <1>2
  <2>2. frames \o << f >> = Append(frames, f) /\ frames \o <<>> = frames
    BY <1>1, Appended
  <2> QED BY <1>1, <2>1, <2>2 DEF VerbatimFrames, Verbatim
<1>5. X = IF ShowsText(m) THEN TextFrames(m.by)
          ELSE IF ShowsCall(m) THEN << Call(CallAt(m)) >> ELSE <<>>
  BY DEF EventFrames, ShowsText, ShowsCall, SpeaksWhole
<1>6. handler' = IF ShowsText(m) THEN AfterText(m.by)
                 ELSE IF m.type = "stream_event" THEN AfterEvent(m) ELSE handler
  <2>1. m.type = "stream_event" /\ m.kind = "delta" => AfterEvent(m) = AfterText(m.by)
    BY DEF AfterEvent
  <2>2. m.type = "stream_event" => ~SpeaksWhole(m)
    BY DEF SpeaksWhole
  <2> QED BY <2>1, <2>2 DEF StreamMessage, ShowsText
<1>7. ShowsCall(m) => CallAt(m) \in CallSet
  <2>1. ShowsCall(m) => m.index \in Indexes
    BY DEF ShowsCall, Messages, WellMade
  <2> QED BY <1>1, <2>1 DEF ShowsCall, CallAt, HandlerSet
<1>8. ~(ShowsText(m) /\ ShowsCall(m))
  BY DEF ShowsText, ShowsCall, SpeaksWhole
<1> HIDE DEF X
<1>9. ShowsText(m) => TextFrom(Verbatim(m), m.by, frames')
  BY <1>1, <1>3, <1>4, <1>5, TextFacts
<1>10. ShowsCall(m) => frames' = Append(Verbatim(m), Call(CallAt(m)))
  <2>1. ShowsCall(m) => Call(CallAt(m)) \in FrameSet
    BY <1>7, CallFacts
  <2> QED BY <1>3, <1>4, <1>5, <1>8, <2>1, Appended
<1>11. ~ShowsText(m) /\ ~ShowsCall(m) => frames' = Verbatim(m)
  <2>1. Verbatim(m) \o <<>> = Verbatim(m)
    BY <1>4
  <2> QED BY <1>3, <1>4, <1>5, <2>1
<1> QED BY <1>4, <1>6, <1>7, <1>9, <1>10, <1>11 DEF Streamed

LEMMA AfterTextTyped ==
    ASSUME TypeInv, NEW by \in Authors
    PROVE  AfterText(by) \in HandlerSet /\ AfterText(by).calls = handler.calls
           /\ AfterText(by).inPrefix = handler.inPrefix
<1>1. handler \in HandlerSet /\ (by # Main => by \in Subagents)
  BY DEF TypeInv, Authors
<1>2. SwitchesBlock(by) => by \in Subagents
  BY <1>1 DEF SwitchesBlock
<1> QED BY <1>1, <1>2 DEF AfterText, HandlerSet

LEMMA AfterEventTyped ==
    ASSUME TypeInv, NEW m \in Messages, m.type = "stream_event", m.kind # "delta"
    PROVE  /\ AfterEvent(m) \in HandlerSet
           /\ AfterEvent(m).current = handler.current /\ AfterEvent(m).inBlock = handler.inBlock
           /\ AfterEvent(m).inPrefix = handler.inPrefix
<1>1. handler \in HandlerSet /\ m.index \in Indexes
  BY DEF TypeInv, Messages, WellMade
<1>2. m.kind \in {"toolStart", "input"} => m.tool \in Tools
  BY DEF Messages, WellMade
<1>3. CASE m.kind = "toolStart"
  <2>1. [tool |-> m.tool, input |-> <<>>] \in CallSet
    BY <1>2, <1>3 DEF CallSet
  <2>2. AfterEvent(m) = [handler EXCEPT !.calls[m.index] = [tool |-> m.tool, input |-> <<>>]]
    BY <1>3 DEF AfterEvent
  <2> QED BY <1>1, <2>1, <2>2 DEF HandlerSet
<1>4. CASE m.kind = "input" /\ CallAt(m) # None
  <2>1. CallAt(m) \in CallSet
    BY <1>1, <1>4 DEF CallAt, HandlerSet
  <2>2. [CallAt(m) EXCEPT !.input = Append(@, m.tool)] \in CallSet
    BY <1>2, <1>4, <2>1 DEF CallSet
  <2>3. AfterEvent(m) = [handler EXCEPT !.calls[m.index] = [CallAt(m) EXCEPT !.input = Append(@, m.tool)]]
    BY <1>1, <1>4 DEF AfterEvent, CallAt, HandlerSet
  <2> QED BY <1>1, <2>2, <2>3 DEF HandlerSet
<1>5. CASE m.kind = "stop"
  <2>1. AfterEvent(m) = [handler EXCEPT !.calls[m.index] = None]
    BY <1>5 DEF AfterEvent
  <2> QED BY <1>1, <2>1 DEF HandlerSet
<1>6. CASE m.kind # "toolStart" /\ ~(m.kind = "input" /\ CallAt(m) # None) /\ m.kind # "stop"
  BY <1>1, <1>6 DEF AfterEvent
<1> QED BY <1>3, <1>4, <1>5, <1>6

LEMMA TextTyped ==
    ASSUME NEW s \in Seq(FrameSet), NEW by \in Authors, NEW t, TextFrom(s, by, t)
    PROVE  t \in Seq(FrameSet)
<1>1. Close \in FrameSet /\ Open(by) \in FrameSet /\ Text(by) \in FrameSet
  BY FrameFacts
<1> QED BY <1>1 DEF TextFrom

LEMMA HandleTyped ==
    ASSUME TypeInv, NEW m \in Messages, Handle(m)
    PROVE  /\ handler' \in HandlerSet /\ frames' \in Seq(FrameSet)
           /\ messages' \in Seq(Messages) /\ said' \in Seq(Messages) /\ said' = Append(said, m)
<1>1. said' = Append(said, m) /\ said' \in Seq(Messages)
  BY DEF Handle, TypeInv
<1>2. CASE Hide(m)
  <2>1. handler' \in HandlerSet
    <3>1. PICK b : b = (IsReplay(m) \/ (handler.inPrefix /\ ~EndsPrefix(m)))
      OBVIOUS
    <3>2. b \in BOOLEAN
      BY <3>1
    <3>3. handler' = [handler EXCEPT !.inPrefix = b]
      BY <1>2, <3>1 DEF Hide
    <3> QED BY <3>2, <3>3 DEF TypeInv, HandlerSet
  <2> QED BY <1>1, <1>2, <2>1 DEF Hide, TypeInv
<1>3. CASE StreamMessage(m)
  <2>1. Streamed(m) /\ m.by \in Authors
    BY <1>3, StreamFacts DEF Messages, Raw
  <2>2. messages' \in Seq(Messages)
    BY <1>3 DEF StreamMessage, Stored, TypeInv
  <2>3. frames' \in Seq(FrameSet)
    <3>1. ShowsText(m) => frames' \in Seq(FrameSet)
      BY <2>1, TextTyped DEF Streamed
    <3>2. ShowsCall(m) => frames' \in Seq(FrameSet)
      <4>1. ShowsCall(m) => Call(CallAt(m)) \in FrameSet
        BY <2>1, CallFacts DEF Streamed
      <4> QED BY <2>1, <4>1 DEF Streamed
    <3> QED BY <2>1, <3>1, <3>2 DEF Streamed
  <2>4. handler' \in HandlerSet
    <3>1. ShowsText(m) => handler' \in HandlerSet
      BY <2>1, AfterTextTyped DEF Streamed
    <3>2. ~ShowsText(m) /\ m.type = "stream_event" => handler' \in HandlerSet
      BY <2>1, AfterEventTyped DEF Streamed, ShowsText
    <3> QED BY <2>1, <3>1, <3>2 DEF Streamed, TypeInv
  <2> QED BY <1>1, <2>2, <2>3, <2>4
<1>4. CASE CollectMessage(m)
  BY <1>1, <1>4 DEF CollectMessage, TypeInv
<1> QED BY <1>2, <1>3, <1>4 DEF Handle

(***************************************************************************)
(* The events of a managed session and what the adapter makes of them.     *)
(***************************************************************************)
IsPause(m) == m.type = "result" /\ m.kind = "requires_action"
IsFile(m) == m.type \in {"artifact", "session_files"}
Pausing(e) == e.type = "idle" /\ e.reason = "requires_action"
Files == {m \in Managed : IsFile(m)}

LEMMA ManagedMade ==
    /\ \A kind \in {"all"} : Message("session_files", kind) \in Files
    /\ Message("artifact", "file") \in Files
    /\ \A kind \in {"error", "success"} :
          Message("result", kind) \in Managed /\ ~IsPause(Message("result", kind))
    /\ Message("assistant", "text") \in Managed /\ ~IsToolUse(Message("assistant", "text"))
    /\ Message("user", "toolResult") \in Managed
    /\ \A ids \in SUBSET Tools :
          /\ [Message("result", "requires_action") EXCEPT !.ids = ids] \in Managed
          /\ IsPause([Message("result", "requires_action") EXCEPT !.ids = ids])
          /\ [Message("result", "requires_action") EXCEPT !.ids = ids].ids = ids
    /\ \A use \in ToolUses, t \in Tools :
          /\ ToolUse(use, t) \in Managed /\ IsToolUse(ToolUse(use, t))
          /\ ToolUse(use, t).kind = use /\ ToolUse(use, t).tool = t
<1>1. /\ Made(Message("session_files", "all"), "session_files", "all")
      /\ Made(Message("artifact", "file"), "artifact", "file")
      /\ Made(Message("assistant", "text"), "assistant", "text")
      /\ Made(Message("user", "toolResult"), "user", "toolResult")
      /\ Made(Message("result", "requires_action"), "result", "requires_action")
  BY MessageFacts DEF Types, Kinds
<1>2. \A kind \in {"error", "success"} : Made(Message("result", kind), "result", kind)
  BY MessageFacts DEF Types, Kinds
<1>3. \A use \in ToolUses : Made(Message("assistant", use), "assistant", use)
  BY MessageFacts DEF Types, Kinds, ToolUses
<1>4. ASSUME NEW m, NEW type, NEW kind, Made(m, type, kind),
             type \in {"session_files", "artifact"} \/ (type = "assistant" /\ kind = "text")
                \/ (type = "user" /\ kind = "toolResult")
                \/ (type = "result" /\ kind \in {"requires_action", "error", "success"})
      PROVE  m \in Managed
  <2>1. m \in Messages
    BY <1>4, ToolLess DEF Made
  <2> QED BY <1>4, <2>1 DEF Made, Managed, IsManaged
<1>5. /\ Message("session_files", "all") \in Files /\ Message("artifact", "file") \in Files
      /\ Message("assistant", "text") \in Managed /\ Message("user", "toolResult") \in Managed
  <2>1. /\ Message("session_files", "all") \in Managed /\ Message("artifact", "file") \in Managed
        /\ Message("assistant", "text") \in Managed /\ Message("user", "toolResult") \in Managed
    BY <1>1, <1>4
  <2> QED BY <1>1, <2>1 DEF Files, IsFile, Made
<1>6. ~IsToolUse(Message("assistant", "text"))
  BY <1>1 DEF Made, IsToolUse, ToolUses
<1>7. \A kind \in {"error", "success"} :
          Message("result", kind) \in Managed /\ ~IsPause(Message("result", kind))
  BY <1>2, <1>4 DEF IsPause, Made
<1>8. ASSUME NEW ids \in SUBSET Tools
      PROVE  /\ [Message("result", "requires_action") EXCEPT !.ids = ids] \in Managed
             /\ IsPause([Message("result", "requires_action") EXCEPT !.ids = ids])
             /\ [Message("result", "requires_action") EXCEPT !.ids = ids].ids = ids
  <2>1. PICK o : o = Message("result", "requires_action") /\ Made(o, "result", "requires_action")
    BY <1>1
  <2>2. PICK m : m = [o EXCEPT !.ids = ids]
    OBVIOUS
  <2>3. /\ m \in Raw /\ m.type = "result" /\ m.kind = "requires_action" /\ m.ids = ids
        /\ m.old = FALSE /\ m.tool = None
    <3>1. ids \in SUBSET OrNone
      BY DEF OrNone
    <3> QED BY <2>1, <2>2, <3>1 DEF Made, Raw
  <2>4. m \in Messages
    BY <2>3, ToolLess
  <2> QED BY <2>1, <2>2, <2>3, <2>4 DEF Managed, IsManaged, IsPause
<1>9. ASSUME NEW use \in ToolUses, NEW t \in Tools
      PROVE  /\ ToolUse(use, t) \in Managed /\ IsToolUse(ToolUse(use, t))
             /\ ToolUse(use, t).kind = use /\ ToolUse(use, t).tool = t
  <2>1. PICK o : o = Message("assistant", use) /\ Made(o, "assistant", use)
    BY <1>3
  <2>2. PICK m : m = [o EXCEPT !.tool = t] /\ m = ToolUse(use, t)
    BY <2>1 DEF ToolUse
  <2>3. m \in Raw /\ m.type = "assistant" /\ m.kind = use /\ m.tool = t /\ m.old = FALSE
    <3>1. t \in OrNone
      BY DEF OrNone
    <3> QED BY <2>1, <2>2, <3>1 DEF Made, Raw
  <2>4. m \in Messages
    BY <2>3 DEF Messages, WellMade, IsAnswer
  <2> QED BY <2>2, <2>3, <2>4 DEF Managed, IsManaged, IsToolUse
<1> QED BY <1>5, <1>6, <1>7, <1>8, <1>9

LEMMA PausesTyped ==
    ASSUME TypeInv PROVE \A ids \in Pauses : ids \subseteq Tools /\ ids # {}
<1>1. \A m \in Said : m \in Messages
  BY DEF Said, TypeInv
<1>2. \A uses \in SUBSET ToolUses : \A m \in UsedBy(uses) : m.tool \in Tools
  BY <1>1 DEF UsedBy, Messages, WellMade, IsToolUse
<1>3. Unresolved \subseteq Tools /\ Waiting \subseteq Tools
  BY <1>2 DEF Unresolved, Waiting, ToolUses
<1> QED BY <1>3 DEF Pauses

LEMMA EventFacts ==
    ASSUME TypeInv, NEW e \in SessionEvents
    PROVE  /\ Pausing(e) => /\ EndsTurn(e) /\ e.ids \in Pauses /\ e.tool = None
                            /\ MapEvent(e) = << Message("assistant", "text"),
                                 [Message("result", "requires_action") EXCEPT !.ids = e.ids] >>
           /\ ~Pausing(e) =>
                 /\ e.ids = {} /\ (e.tool # None => e.tool \in Tools)
                 /\ \E m \in Managed : MapEvent(e) = << m >> /\ ~IsPause(m)
<1>1. ASSUME NEW type, e = Event(type),
             type \in {"message", "tool_result", "error", "terminated"}
      PROVE  /\ ~Pausing(e) /\ e.ids = {} /\ e.tool = None
             /\ \E m \in Managed : MapEvent(e) = << m >> /\ ~IsPause(m)
  <2>1. e.type = type /\ e.ids = {} /\ e.tool = None
    BY <1>1 DEF Event
  <2>2. MapEvent(e) = IF type = "message" THEN << Message("assistant", "text") >>
                      ELSE IF type = "tool_result" THEN << Message("user", "toolResult") >>
                      ELSE << Message("result", "error") >>
    BY <1>1, <2>1 DEF MapEvent
  <2>3. ~IsPause(Message("assistant", "text")) /\ ~IsPause(Message("user", "toolResult"))
    BY DEF IsPause, Message
  <2> QED BY <1>1, <2>1, <2>2, <2>3, ManagedMade DEF Pausing
<1>2. ASSUME NEW reason, NEW ids, e = IdleEvent(reason, ids)
      PROVE  e.type = "idle" /\ e.reason = reason /\ e.ids = ids /\ e.tool = None
             /\ MapEvent(e) = Idle(reason, ids)
  BY <1>2 DEF IdleEvent, Event, MapEvent
<1>3. ASSUME NEW reason \in {"end_turn", "retries_exhausted"}, e = IdleEvent(reason, {})
      PROVE  /\ ~Pausing(e) /\ e.ids = {} /\ e.tool = None
             /\ \E m \in Managed : MapEvent(e) = << m >> /\ ~IsPause(m)
  <2>1. Idle(reason, {}) = IF reason = "retries_exhausted" THEN << Message("result", "error") >>
                           ELSE << Message("result", "success") >>
    BY DEF Idle
  <2>2. e.type = "idle" /\ e.reason = reason /\ e.ids = {} /\ e.tool = None /\ MapEvent(e) = Idle(reason, {})
    BY <1>2, <1>3
  <2> QED BY <2>1, <2>2, ManagedMade DEF Pausing
<1>4. ASSUME NEW ids \in Pauses, e = IdleEvent("requires_action", ids)
      PROVE  /\ Pausing(e) /\ EndsTurn(e) /\ e.ids \in Pauses /\ e.tool = None
             /\ MapEvent(e) = << Message("assistant", "text"),
                                 [Message("result", "requires_action") EXCEPT !.ids = e.ids] >>
  <2>1. Idle("requires_action", ids) = << Message("assistant", "text"),
                                          [Message("result", "requires_action") EXCEPT !.ids = ids] >>
    BY DEF Idle
  <2> QED BY <1>2, <1>4, <2>1 DEF Pausing, EndsTurn
<1>5. ASSUME NEW use \in ToolUses, NEW t \in Tools, e = ToolEvent(use, t)
      PROVE  /\ ~Pausing(e) /\ e.ids = {} /\ e.tool \in Tools
             /\ \E m \in Managed : MapEvent(e) = << m >> /\ ~IsPause(m)
  <2>1. e.type = "tool_use" /\ e.use = use /\ e.tool = t /\ e.ids = {}
    BY <1>5 DEF ToolEvent, Event
  <2>2. MapEvent(e) = << ToolUse(use, t) >>
    BY <2>1 DEF MapEvent
  <2>3. ~IsPause(ToolUse(use, t))
    BY ManagedMade DEF IsPause, IsToolUse
  <2> QED BY <2>1, <2>2, <2>3, ManagedMade DEF Pausing
<1> QED BY <1>1, <1>3, <1>4, <1>5 DEF SessionEvents

LEMMA FilesTyped == \A flow, e : FileMessages(flow, e) \subseteq Seq(Files)
<1>1. /\ <<>> \in Seq(Files) /\ << Message("session_files", "all") >> \in Seq(Files)
      /\ << Message("artifact", "file"), Message("session_files", "all") >> \in Seq(Files)
  BY ManagedMade
<1> QED BY <1>1 DEF FileMessages

(***************************************************************************)
(* The variables keep to their types.                                      *)
(***************************************************************************)
LEMMA NewAgentTyped ==
    ASSUME NEW resumed \in BOOLEAN
    PROVE  /\ NewAgent(resumed) \in AgentSet /\ NewAgent(resumed).yields = <<>>
           /\ NewAgent(resumed).stage = "start" /\ NewAgent(resumed).used = {}
           /\ NewAgent(resumed).blocking = {}
           /\ \A a \in Authors : NewAgent(resumed).open[a] = NoBlock
<1>1. [a \in Authors |-> NoBlock] \in [Authors -> Blocks]
  BY DEF Blocks
<1>2. <<>> \in Seq(Managed) /\ "start" \in Stages
  BY DEF Stages
<1> QED BY <1>1, <1>2 DEF NewAgent, AgentSet

LEMMA NewHandlerTyped ==
    /\ NewHandler \in HandlerSet /\ ~NewHandler.inBlock /\ ~NewHandler.inPrefix
    /\ NewHandler.current = None /\ \A i \in Indexes : NewHandler.calls[i] = None
<1>1. [i \in Indexes |-> None] \in [Indexes -> CallSet \cup {None}]
  OBVIOUS
<1> QED BY <1>1 DEF NewHandler, HandlerSet

LEMMA BeginTyped ==
    /\ Frame("begin") \in FrameSet /\ Frame("begin").kind = "begin"
    /\ \A s \in Seq(FrameSet) :
          s \o Begin(turn.streams) = IF turn.streams THEN Append(s, Frame("begin")) ELSE s
    /\ Begin(turn.streams) \in Seq(FrameSet)
<1>1. Frame("begin") \in FrameSet /\ Frame("begin").kind = "begin"
  BY FrameFacts DEF FrameKinds
<1> QED BY <1>1, Appended DEF Begin

LEMMA InitTyped == Init => TypeInv
<1> SUFFICES ASSUME Init PROVE TypeInv
  OBVIOUS
<1>1. turn \in TurnKinds
  BY TurnsAssumption DEF Init
<1>2. agent \in AgentSet /\ agent.yields = <<>>
  <2>1. PICK r \in BOOLEAN : agent = NewAgent(r)
    BY DEF Init
  <2> QED BY <2>1, NewAgentTyped
<1>3. frames \in Seq(FrameSet)
  BY BeginTyped DEF Init
<1>4. messages = <<>> /\ said = <<>> /\ outcome = Running
  BY DEF Init
<1>5. /\ outcome = [status |-> outcome.status, interaction |-> outcome.interaction,
                    error |-> outcome.error, task |-> outcome.task]
      /\ outcome.status = "running"
  BY <1>4 DEF Running
<1>6. handler \in HandlerSet
  BY NewHandlerTyped DEF Init
<1> QED BY <1>1, <1>2, <1>3, <1>4, <1>5, <1>6 DEF TypeInv

LEMMA SendsTyped ==
    ASSUME TypeInv, NEW m \in Messages, Sends(m)
    PROVE  agent' \in AgentSet /\ (agent'.yields # <<>> => turn.managed)
<1>1. agent \in AgentSet /\ (agent.yields # <<>> => turn.managed) /\ m.by \in Authors
  BY DEF TypeInv, Messages, Raw
<1>2. ASSUME NEW stage \in Stages, Moved(stage) PROVE agent' \in AgentSet /\ agent'.yields = agent.yields
  BY <1>1, <1>2 DEF Moved, AgentSet
<1>3. {"resumed", "open", "replaying", "finished"} \subseteq Stages
  BY DEF Stages
<1>4. CASE Opens(m) \/ Repeats(m) \/ Echoes(m) \/ Tells(m) \/ Deltas(m) \/ Concludes(m)
  BY <1>1, <1>2, <1>3, <1>4 DEF Opens, Repeats, Echoes, Tells, Deltas, Concludes
<1>5. CASE Starts(m)
  <2>1. m.index \in Indexes /\ m.tool \in OrNone
    <3>1. m.kind # "delta"
      BY <1>5 DEF Starts
    <3> QED BY <1>5, <3>1 DEF Starts, Messages, Raw, WellMade
  <2>2. [index |-> m.index, tool |-> m.tool] \in Blocks
    BY <2>1 DEF Blocks
  <2>3. (IF m.tool = None THEN agent.used ELSE agent.used \cup {m.tool}) \in SUBSET Tools
    BY <1>1, <2>1 DEF OrNone, AgentSet
  <2>4. PICK b \in Blocks, u \in SUBSET Tools :
            agent' = [agent EXCEPT !.stage = "open", !.open[m.by] = b, !.used = u]
    BY <1>5, <2>2, <2>3 DEF Starts
  <2> QED BY <1>1, <1>3, <2>4 DEF AgentSet
<1>6. CASE Goes(m)
  <2>1. PICK b \in Blocks : agent' = [agent EXCEPT !.open[m.by] = b]
    <3>1. NoBlock \in Blocks /\ agent.open[m.by] \in Blocks
      BY <1>1 DEF Blocks, AgentSet
    <3>2. agent' = [agent EXCEPT !.open[m.by] = IF m.kind = "stop" THEN NoBlock ELSE agent.open[m.by]]
      BY <1>1, <1>6 DEF Goes, AgentSet
    <3> QED BY <3>1, <3>2
  <2> QED BY <1>1, <2>1 DEF AgentSet
<1>7. CASE Works(m)
  <2>1. m.tool \in Tools
    BY <1>7 DEF Works, Messages, WellMade
  <2> QED BY <1>1, <1>3, <1>7, <2>1 DEF Works, AgentSet
<1>8. CASE Answers(m)
  BY <1>1, <1>8 DEF Answers
<1>9. CASE Yields(m)
  <2>1. Tail(agent.yields) \in Seq(Managed)
    BY <1>1, <1>9 DEF Yields, AgentSet
  <2> QED BY <1>1, <1>9, <2>1 DEF Yields, AgentSet
<1> QED BY <1>4, <1>5, <1>6, <1>7, <1>8, <1>9 DEF Sends, Utters

LEMMA ClosingFrames ==
    ASSUME TypeInv
    PROVE  /\ {Frame("end"), Frame("error"), Close} \subseteq FrameSet
           /\ (frames \o Finalize) \o << Frame("end") >> =
                 IF turn.markers /\ handler.inBlock
                 THEN Append(Append(frames, Close), Frame("end")) ELSE Append(frames, Frame("end"))
           /\ frames \o << Frame("error"), Frame("end") >> =
                 Append(Append(frames, Frame("error")), Frame("end"))
<1>1. {Frame("end"), Frame("error"), Close} \subseteq FrameSet
  BY FrameFacts DEF FrameKinds
<1>2. frames \o Finalize = IF turn.markers /\ handler.inBlock THEN Append(frames, Close) ELSE frames
  BY <1>1, Appended DEF Finalize, TypeInv
<1>3. frames \o Finalize \in Seq(FrameSet)
  BY <1>1, <1>2 DEF TypeInv
<1>4. (frames \o Finalize) \o << Frame("end") >> = Append(frames \o Finalize, Frame("end"))
  BY <1>1, <1>3, Appended
<1>5. frames \o << Frame("error"), Frame("end") >> = Append(Append(frames, Frame("error")), Frame("end"))
  BY <1>1, Appended DEF TypeInv
<1> QED BY <1>1, <1>2, <1>4, <1>5

LEMMA TypesStep == TypeInv /\ [Next]_vars => TypeInv'
<1> SUFFICES ASSUME TypeInv, [Next]_vars PROVE TypeInv'
  OBVIOUS
<1>1. ASSUME NEW m \in Messages, Sends(m) PROVE TypeInv'
  <2>1. /\ handler' \in HandlerSet /\ frames' \in Seq(FrameSet)
        /\ messages' \in Seq(Messages) /\ said' \in Seq(Messages)
    BY <1>1, HandleTyped DEF Sends
  <2>2. agent' \in AgentSet /\ (agent'.yields # <<>> => turn.managed)
    BY <1>1, SendsTyped
  <2>3. turn' = turn /\ outcome' = outcome
    BY <1>1 DEF Sends
  <2> QED BY <2>1, <2>2, <2>3 DEF TypeInv
<1>2. CASE ManagedEvent
  <2>1. PICK e \in SessionEvents : \E files \in FileMessages(turn.flow, e) :
          agent' = [agent EXCEPT
            !.yields = MapEvent(e) \o files,
            !.stage = IF EndsTurn(e) THEN "finished" ELSE "open",
            !.used = IF e.tool = None THEN @ ELSE @ \cup {e.tool},
            !.blocking = e.ids]
    BY <1>2 DEF ManagedEvent
  <2>2. PICK files \in FileMessages(turn.flow, e) :
          agent' = [agent EXCEPT
            !.yields = MapEvent(e) \o files,
            !.stage = IF EndsTurn(e) THEN "finished" ELSE "open",
            !.used = IF e.tool = None THEN @ ELSE @ \cup {e.tool},
            !.blocking = e.ids]
    BY <2>1
  <2>3. e.ids \in SUBSET Tools /\ (e.tool # None => e.tool \in Tools)
    BY EventFacts, PausesTyped
  <2>4. MapEvent(e) \in Seq(Managed)
    <3>1. CASE Pausing(e)
      <4>1. /\ Message("assistant", "text") \in Managed
            /\ [Message("result", "requires_action") EXCEPT !.ids = e.ids] \in Managed
        BY <2>3, ManagedMade
      <4>2. MapEvent(e) = << Message("assistant", "text"),
                             [Message("result", "requires_action") EXCEPT !.ids = e.ids] >>
        BY <3>1, EventFacts
      <4> QED BY <4>1, <4>2
    <3>2. CASE ~Pausing(e)
      <4>1. PICK m \in Managed : MapEvent(e) = << m >>
        BY <3>2, EventFacts
      <4> QED BY <4>1
    <3> QED BY <3>1, <3>2
  <2>5. files \in Seq(Managed)
    <3>1. files \in Seq(Files)
      BY FilesTyped
    <3>2. Files \subseteq Managed
      BY DEF Files
    <3> QED BY <3>1, <3>2
  <2>6. MapEvent(e) \o files \in Seq(Managed)
    BY <2>4, <2>5
  <2>7. PICK y \in Seq(Managed), s \in Stages, u \in SUBSET Tools, b \in SUBSET Tools :
            agent' = [agent EXCEPT !.yields = y, !.stage = s, !.used = u, !.blocking = b]
    <3>1. (IF EndsTurn(e) THEN "finished" ELSE "open") \in Stages
      BY DEF Stages
    <3>2. (IF e.tool = None THEN agent.used ELSE agent.used \cup {e.tool}) \in SUBSET Tools
      BY <2>3 DEF TypeInv, AgentSet
    <3>3. agent' = [agent EXCEPT !.yields = MapEvent(e) \o files,
                       !.stage = IF EndsTurn(e) THEN "finished" ELSE "open",
                       !.used = IF e.tool = None THEN agent.used ELSE agent.used \cup {e.tool},
                       !.blocking = e.ids]
      BY <2>2 DEF TypeInv, AgentSet
    <3> QED BY <2>3, <2>6, <3>1, <3>2, <3>3
  <2>8. agent' \in AgentSet
    BY <2>7 DEF TypeInv, AgentSet
  <2>9. turn.managed /\ UNCHANGED <<turn, handler, frames, messages, said, outcome>>
    BY <1>2 DEF ManagedEvent
  <2> QED BY <2>8, <2>9 DEF TypeInv
<1>3. CASE Closes
  <2>1. /\ UNCHANGED <<turn, agent, handler, messages, said>>
        /\ outcome' \in {Finalized("ended"), Finalized("aborted"), [outcome EXCEPT !.status = "failed"]}
        /\ \/ frames' = frames \/ frames' = frames \o Finalize \o << Frame("end") >>
           \/ frames' = frames \o << Frame("error"), Frame("end") >>
    BY <1>3 DEF Closes, EndQuery, AbortQuery, FailQuery, EmptyQuery, Broken
  <2>2. frames' \in Seq(FrameSet)
    <3>1. \A f, g \in FrameSet : /\ Append(frames, f) \in Seq(FrameSet)
                                 /\ Append(Append(frames, f), g) \in Seq(FrameSet)
      BY DEF TypeInv
    <3>2. frames \o Finalize \o << Frame("end") >> \in Seq(FrameSet)
      BY <3>1, ClosingFrames
    <3>3. frames \o << Frame("error"), Frame("end") >> \in Seq(FrameSet)
      BY <3>1, ClosingFrames
    <3> QED BY <2>1, <3>2, <3>3 DEF TypeInv
  <2>3. /\ outcome' = [status |-> outcome'.status, interaction |-> outcome'.interaction,
                       error |-> outcome'.error, task |-> outcome'.task]
        /\ outcome'.status \in {"ended", "aborted", "failed"}
    <3>1. CASE outcome' = [outcome EXCEPT !.status = "failed"]
      BY <3>1 DEF TypeInv
    <3>2. CASE outcome' = Finalized("ended")
      BY <3>2 DEF Finalized
    <3>3. CASE outcome' = Finalized("aborted")
      BY <3>3 DEF Finalized
    <3> QED BY <2>1, <3>1, <3>2, <3>3
  <2> QED BY <2>1, <2>2, <2>3 DEF TypeInv
<1>4. CASE RetryQuery
  <2>1. PICK r \in BOOLEAN : agent' = [NewAgent(r) EXCEPT !.queries = agent.queries + 1]
    BY <1>4 DEF RetryQuery
  <2>2. agent' \in AgentSet /\ agent'.yields = <<>>
    <3>1. agent.queries + 1 \in Nat
      BY DEF TypeInv, AgentSet
    <3> QED BY <2>1, <3>1, NewAgentTyped DEF AgentSet
  <2>3. frames' \in Seq(FrameSet)
    BY <1>4, BeginTyped DEF RetryQuery, TypeInv
  <2>4. /\ outcome' = [status |-> outcome'.status, interaction |-> outcome'.interaction,
                       error |-> outcome'.error, task |-> outcome'.task]
        /\ outcome'.status = "running"
    BY <1>4 DEF RetryQuery, Running
  <2> QED BY <1>4, <2>2, <2>3, <2>4, NewHandlerTyped DEF RetryQuery, TypeInv
<1>5. CASE UNCHANGED vars
  BY <1>5 DEF vars, TypeInv
<1> QED BY <1>1, <1>2, <1>3, <1>4, <1>5, Steps

-------------------------------------------------------------------------------
(***************************************************************************)
(* What a turn leaves is taken from the messages that were collected, and  *)
(* a managed query ends when all it had to yield is yielded.               *)
(***************************************************************************)
OutcomeInv ==
    /\ outcome.status \in {"ended", "aborted"} =>
          /\ outcome.interaction = IF turn.managed THEN Bridge(messages) ELSE None
          /\ outcome.error = AgentError(messages, turn.treats, turn.onExhausted)
          /\ outcome.task = TrackedStatus(messages)
    /\ outcome.status = "ended" => agent.yields = <<>>

LEMMA FinalizedFacts ==
    ASSUME NEW status
    PROVE  /\ Finalized(status).status = status
           /\ Finalized(status).interaction = (IF turn.managed THEN Bridge(messages) ELSE None)
           /\ Finalized(status).error = AgentError(messages, turn.treats, turn.onExhausted)
           /\ Finalized(status).task = TrackedStatus(messages)
BY DEF Finalized

LEMMA OutcomeInit == Init => OutcomeInv
BY DEF Init, Running, OutcomeInv

LEMMA OutcomeStep == TypeInv /\ OutcomeInv /\ [Next]_vars => OutcomeInv'
<1> SUFFICES ASSUME TypeInv, OutcomeInv, [Next]_vars PROVE OutcomeInv'
  OBVIOUS
<1>1. ASSUME NEW m \in Messages, Sends(m) PROVE OutcomeInv'
  BY <1>1 DEF Sends, OutcomeInv
<1>2. CASE ManagedEvent
  BY <1>2 DEF ManagedEvent, Active, OutcomeInv
<1>3. CASE EndQuery
  <2>1. agent'.yields = <<>> /\ outcome' = Finalized("ended") /\ turn' = turn /\ messages' = messages
    BY <1>3 DEF EndQuery, Finished
  <2> QED BY <2>1, FinalizedFacts DEF OutcomeInv
<1>4. CASE AbortQuery
  <2>1. outcome' = Finalized("aborted") /\ turn' = turn /\ messages' = messages
    BY <1>4 DEF AbortQuery
  <2> QED BY <2>1, FinalizedFacts DEF OutcomeInv
<1>5. CASE FailQuery \/ EmptyQuery
  <2>1. outcome'.status = "failed"
    BY <1>5 DEF FailQuery, EmptyQuery, TypeInv
  <2> QED BY <2>1 DEF OutcomeInv
<1>6. CASE RetryQuery
  BY <1>6 DEF RetryQuery, Running, OutcomeInv
<1>7. CASE UNCHANGED vars
  BY <1>7 DEF vars, OutcomeInv
<1> QED BY <1>1, <1>2, <1>3, <1>4, <1>5, <1>6, <1>7, Steps DEF Closes

-------------------------------------------------------------------------------
(***************************************************************************)
(* A managed session that paused: the pause is the last of what it sent    *)
(* but for files, it names what the session waits for, and that contains   *)
(* every tool whose result the user owes.                                  *)
(***************************************************************************)
Sent == said \o agent.yields
PauseInv ==
    turn.managed =>
        /\ messages = said /\ ~handler.inPrefix
        /\ said \in Seq(Managed)
        /\ \A k \in DOMAIN Sent : IsPause(Sent[k]) => Sent[k].ids = agent.blocking
        /\ agent.blocking = {} => \A k \in DOMAIN Sent : ~IsPause(Sent[k])
        /\ agent.blocking # {} =>
              /\ agent.stage = "finished"
              /\ \E k \in DOMAIN Sent :
                    IsPause(Sent[k]) /\ \A j \in DOMAIN Sent : j > k => IsFile(Sent[j])
              /\ \A k \in DOMAIN Sent :
                    IsToolUse(Sent[k]) /\ Sent[k].kind # "builtin" => Sent[k].tool \in agent.blocking

LEMMA PauseInit == Init => PauseInv
<1> SUFFICES ASSUME Init PROVE PauseInv
  OBVIOUS
<1>1. agent.yields = <<>> /\ agent.blocking = {}
  <2>1. PICK r \in BOOLEAN : agent = NewAgent(r)
    BY DEF Init
  <2> QED BY <2>1, NewAgentTyped
<1>2. messages = <<>> /\ said = <<>> /\ ~handler.inPrefix
  BY NewHandlerTyped DEF Init
<1>3. Sent = <<>> /\ said \in Seq(Managed)
  BY <1>1, <1>2 DEF Sent
<1> QED BY <1>1, <1>2, <1>3 DEF PauseInv

LEMMA YieldMoves ==
    ASSUME NEW s \in Seq(Messages), NEW y \in Seq(Managed), y # <<>>
    PROVE  Append(s, Head(y)) \o Tail(y) = s \o y
<1>1. Managed \subseteq Messages
  BY DEF Managed
<1>2. y \in Seq(Messages)
  BY <1>1
<1>3. y = << Head(y) >> \o Tail(y) /\ Head(y) \in Messages /\ Tail(y) \in Seq(Messages)
  BY <1>2
<1>4. s \o (<< Head(y) >> \o Tail(y)) = (s \o << Head(y) >>) \o Tail(y)
  BY <1>3
<1>5. s \o << Head(y) >> = Append(s, Head(y))
  BY <1>3
<1> QED BY <1>3, <1>4, <1>5

LEMMA TwoMore ==
    ASSUME NEW S, NEW s \in Seq(S), NEW x \in S, NEW y \in S
    PROVE  s \o << x, y >> = Append(Append(s, x), y)
OBVIOUS

LEMMA ManagedHandled ==
    ASSUME TypeInv, NEW m \in Managed, Handle(m), ~handler.inPrefix
    PROVE  messages' = Append(messages, m) /\ said' = Append(said, m) /\ ~handler'.inPrefix
<1>1. m \in Messages /\ m.type # "stream_event" /\ m.by \in Authors
  BY DEF Managed, IsManaged, Messages, Raw
<1>2. ~Hidden(m)
  BY DEF Hidden, IsReplay, Managed, IsManaged
<1>3. CASE StreamMessage(m)
  <2>1. messages' = Append(messages, m)
    BY <1>1, <1>3 DEF StreamMessage, Stored
  <2>2. ~handler'.inPrefix
    <3>1. Streamed(m)
      BY <1>1, <1>3, StreamFacts
    <3>2. ShowsText(m) => ~handler'.inPrefix
      BY <1>1, <3>1, AfterTextTyped DEF Streamed
    <3> QED BY <1>1, <3>1, <3>2 DEF Streamed
  <2> QED BY <2>1, <2>2 DEF Handle
<1>4. CASE CollectMessage(m)
  BY <1>4 DEF CollectMessage, Handle
<1> QED BY <1>2, <1>3, <1>4 DEF Handle, Hide

LEMMA PauseStep == TypeInv /\ PauseInv /\ [Next]_vars => PauseInv'
<1> SUFFICES ASSUME TypeInv, PauseInv, [Next]_vars PROVE PauseInv'
  OBVIOUS
<1>1. ASSUME NEW m \in Messages, Sends(m) PROVE PauseInv'
  <2>1. CASE ~turn.managed
    BY <1>1, <2>1 DEF Sends, PauseInv
  <2>2. CASE turn.managed
    <3>1. Yields(m) /\ Handle(m) /\ turn' = turn
      BY <1>1, <2>2 DEF Sends
    <3>2. agent.yields \in Seq(Managed) /\ agent.yields # <<>> /\ m = Head(agent.yields)
      BY <3>1 DEF Yields, TypeInv, AgentSet
    <3>3. m \in Managed
      BY <3>2
    <3>4. messages' = Append(messages, m) /\ said' = Append(said, m) /\ ~handler'.inPrefix
      BY <2>2, <3>1, <3>3, ManagedHandled DEF PauseInv
    <3>5. /\ agent'.yields = Tail(agent.yields) /\ agent'.blocking = agent.blocking
          /\ agent'.stage = agent.stage
      BY <3>1 DEF Yields, TypeInv, AgentSet
    <3>6. Sent' = Sent
      BY <3>2, <3>4, <3>5, YieldMoves DEF Sent, TypeInv
    <3>7. messages' = said' /\ said' \in Seq(Managed)
      BY <2>2, <3>3, <3>4 DEF PauseInv
    <3> QED BY <2>2, <3>1, <3>4, <3>5, <3>6, <3>7 DEF PauseInv
  <2> QED BY <2>1, <2>2
<1>2. CASE ManagedEvent
  <2>1. /\ turn.managed /\ agent.yields = <<>> /\ agent.stage # "finished"
        /\ UNCHANGED <<turn, handler, messages, said>>
    BY <1>2 DEF ManagedEvent
  <2>2. PICK e \in SessionEvents : \E files \in FileMessages(turn.flow, e) :
          agent' = [agent EXCEPT
            !.yields = MapEvent(e) \o files,
            !.stage = IF EndsTurn(e) THEN "finished" ELSE "open",
            !.used = IF e.tool = None THEN @ ELSE @ \cup {e.tool},
            !.blocking = e.ids]
    BY <1>2 DEF ManagedEvent
  <2>3. PICK files \in FileMessages(turn.flow, e) :
          agent' = [agent EXCEPT
            !.yields = MapEvent(e) \o files,
            !.stage = IF EndsTurn(e) THEN "finished" ELSE "open",
            !.used = IF e.tool = None THEN @ ELSE @ \cup {e.tool},
            !.blocking = e.ids]
    BY <2>2
  <2>4. /\ agent'.yields = MapEvent(e) \o files /\ agent'.blocking = e.ids
        /\ EndsTurn(e) => agent'.stage = "finished"
    BY <2>3 DEF TypeInv, AgentSet
  <2>5. agent.blocking = {} /\ Sent = said
    BY <2>1 DEF PauseInv, Sent, TypeInv
  <2>6. said \in Seq(Managed) /\ \A k \in DOMAIN said : ~IsPause(said[k])
    BY <2>1, <2>5 DEF PauseInv
  <2>7. files \in Seq(Files)
    BY FilesTyped
  <2>8. /\ messages' = said' /\ ~handler'.inPrefix /\ said' = said /\ said' \in Seq(Managed)
        /\ Sent' = said \o (MapEvent(e) \o files)
    BY <2>1, <2>4, <2>6 DEF PauseInv, Sent
  <2>9. \A f \in Files : f \in Managed /\ IsFile(f) /\ ~IsPause(f) /\ ~IsToolUse(f)
    BY DEF Files, IsFile, IsPause, IsToolUse
  <2>10. CASE ~Pausing(e)
    <3>1. PICK m \in Managed : MapEvent(e) = << m >> /\ ~IsPause(m)
      BY <2>10, EventFacts
    <3>2. e.ids = {}
      BY <2>10, EventFacts
    <3>3. ASSUME NEW k \in DOMAIN Sent' PROVE ~IsPause(Sent'[k])
      <4>1. \/ k \in DOMAIN said /\ Sent'[k] = said[k]
            \/ Sent'[k] = m
            \/ \E j \in DOMAIN files : Sent'[k] = files[j]
        <5>1. said \o (<< m >> \o files) = (said \o << m >>) \o files
          BY <2>6, <2>7, <2>9
        <5>2. said \o << m >> = Append(said, m)
          BY <2>6
        <5>3. Sent' = Append(said, m) \o files
          BY <2>8, <3>1, <5>1, <5>2
        <5>4. CASE k <= Len(said)
          BY <2>6, <2>7, <3>3, <5>3, <5>4
        <5>5. CASE k = Len(said) + 1
          BY <2>6, <2>7, <3>3, <5>3, <5>5
        <5>6. CASE k > Len(said) + 1
          <6>1. k - (Len(said) + 1) \in DOMAIN files /\ Sent'[k] = files[k - (Len(said) + 1)]
            BY <2>6, <2>7, <3>3, <5>3, <5>6
          <6> QED BY <6>1
        <5>7. k \in Nat /\ Len(said) \in Nat
          BY <2>6, <2>7, <3>3, <5>3
        <5> QED BY <5>4, <5>5, <5>6, <5>7
      <4>2. \A j \in DOMAIN files : files[j] \in Files
        BY <2>7
      <4> QED BY <2>6, <2>9, <3>1, <4>1, <4>2
    <3> QED BY <2>4, <2>8, <3>2, <3>3 DEF PauseInv
  <2>11. CASE Pausing(e)
    <3> DEFINE ack == Message("assistant", "text")
               pause == [Message("result", "requires_action") EXCEPT !.ids = e.ids]
               n == Len(said)
    <3>1. /\ EndsTurn(e) /\ e.ids \in Pauses /\ MapEvent(e) = << ack, pause >>
          /\ e.ids \in SUBSET Tools /\ e.ids # {}
      BY <2>11, EventFacts, PausesTyped
    <3>2. ack \in Managed /\ pause \in Managed /\ IsPause(pause) /\ pause.ids = e.ids /\ ~IsToolUse(ack)
      BY <3>1, ManagedMade
    <3>3. ~IsPause(ack) /\ ~IsToolUse(pause)
      <4>1. ack.type = "assistant"
        BY LocalMade DEF Made
      <4> HIDE DEF pause
      <4> QED BY <3>2, <4>1 DEF IsPause, IsToolUse
    <3> HIDE DEF ack, pause
    <3>4. Sent' = Append(Append(said, ack), pause) \o files
      <4>1. said \o (<< ack, pause >> \o files) = (said \o << ack, pause >>) \o files
        BY <2>6, <2>7, <2>9, <3>2
      <4>2. said \o << ack, pause >> = Append(Append(said, ack), pause)
        BY <2>6, <3>2, TwoMore
      <4> QED BY <2>8, <3>1, <4>1, <4>2
    <3>5. /\ n \in Nat /\ DOMAIN Sent' = 1 .. n + 2 + Len(files) /\ Len(files) \in Nat
          /\ \A k \in 1 .. n : Sent'[k] = said[k]
          /\ Sent'[n + 1] = ack /\ Sent'[n + 2] = pause
          /\ \A k \in n + 3 .. n + 2 + Len(files) : Sent'[k] = files[k - (n + 2)] /\ Sent'[k] \in Files
      <4>0. said \in Seq(Managed) /\ ack \in Managed /\ pause \in Managed
        BY <2>6, <3>2
      <4> DEFINE T == Append(said, ack)
                 S == Append(T, pause)
      <4>1. T \in Seq(Managed) /\ S \in Seq(Managed)
        BY <4>0
      <4>2. /\ Len(S) = n + 2 /\ S[n + 1] = ack /\ S[n + 2] = pause
            /\ \A k \in 1 .. n : S[k] = said[k]
        <5>1. Len(said) = n /\ n \in Nat
          BY <4>0
        <5> HIDE DEF n
        <5>2. Len(T) = n + 1 /\ T[n + 1] = ack /\ \A k \in 1 .. n : T[k] = said[k]
          BY <4>0, <5>1
        <5> HIDE DEF T
        <5>3. Len(S) = n + 2 /\ S[n + 2] = pause /\ \A k \in 1 .. n + 1 : S[k] = T[k]
          BY <4>0, <4>1, <5>1, <5>2
        <5> QED BY <5>1, <5>2, <5>3
      <4>3. Sent' = S \o files
        BY <3>4
      <4> HIDE DEF S
      <4>4. n \in Nat /\ Len(files) \in Nat /\ DOMAIN Sent' = 1 .. n + 2 + Len(files)
        <5>1. n \in Nat /\ Len(files) \in Nat
          BY <2>6, <2>7
        <5> HIDE DEF n
        <5>2. Len(S) = n + 2 /\ S \in Seq(Managed) /\ files \in Seq(Managed)
          BY <2>7, <2>9, <4>1, <4>2
        <5>3. DOMAIN (S \o files) = 1 .. Len(S) + Len(files)
          BY <5>2
        <5> QED BY <4>3, <5>1, <5>2, <5>3
      <4>5. \A k \in 1 .. n + 2 : Sent'[k] = S[k]
        BY <2>7, <4>1, <4>2, <4>3, <4>4
      <4>6. \A k \in n + 3 .. n + 2 + Len(files) : Sent'[k] = files[k - (n + 2)] /\ Sent'[k] \in Files
        BY <2>7, <4>1, <4>2, <4>3, <4>4
      <4> QED BY <4>2, <4>4, <4>5, <4>6
    <3>6. ASSUME NEW k \in DOMAIN Sent', IsPause(Sent'[k]) PROVE Sent'[k].ids = e.ids
      <4>1. k \in 1 .. n => k \in DOMAIN said
        BY <2>6
      <4>2. k \notin 1 .. n
        BY <2>6, <3>5, <3>6, <4>1
      <4>3. k = n + 1 \/ k = n + 2 \/ k \in n + 3 .. n + 2 + Len(files)
        BY <3>5, <4>2
      <4> QED BY <2>9, <3>2, <3>3, <3>5, <3>6, <4>3
    <3>7. \E k \in DOMAIN Sent' : IsPause(Sent'[k]) /\ \A j \in DOMAIN Sent' : j > k => IsFile(Sent'[j])
      <4>1. n + 2 \in DOMAIN Sent' /\ IsPause(Sent'[n + 2])
        BY <3>2, <3>5
      <4>2. \A j \in DOMAIN Sent' : j > n + 2 => IsFile(Sent'[j])
        BY <2>9, <3>5
      <4> QED BY <4>1, <4>2
    <3>8. ASSUME NEW k \in DOMAIN Sent', IsToolUse(Sent'[k]), Sent'[k].kind # "builtin"
          PROVE  Sent'[k].tool \in e.ids
      <4>1. k \in 1 .. n
        <5>1. k = n + 1 \/ k = n + 2 \/ k \in n + 3 .. n + 2 + Len(files) \/ k \in 1 .. n
          <6> HIDE DEF n
          <6> QED BY <3>5, <3>8
        <5> QED BY <2>9, <3>2, <3>3, <3>5, <3>8, <5>1
      <4>2. Sent'[k] = said[k] /\ k \in DOMAIN said
        BY <2>6, <3>5, <4>1
      <4>3. said[k] \in UsedBy({"question", "custom"})
        BY <3>8, <4>2 DEF UsedBy, Said, IsToolUse, ToolUses
      <4>4. said[k].tool \in Waiting
        BY <4>3 DEF Waiting
      <4> QED BY <3>1, <4>2, <4>4 DEF Pauses
    <3> QED BY <2>4, <2>8, <3>1, <3>6, <3>7, <3>8 DEF PauseInv
  <2> QED BY <2>10, <2>11
<1>3. CASE Closes
  <2>1. UNCHANGED <<turn, agent, handler, messages, said>>
    BY <1>3 DEF Closes, EndQuery, AbortQuery, FailQuery, EmptyQuery
  <2> QED BY <2>1 DEF PauseInv, Sent
<1>4. CASE RetryQuery
  BY <1>4 DEF RetryQuery, PauseInv
<1>5. CASE UNCHANGED vars
  BY <1>5 DEF vars, PauseInv, Sent
<1> QED BY <1>1, <1>2, <1>3, <1>4, <1>5, Steps

LEMMA Greatest ==
    ASSUME NEW n \in Nat, NEW S, S \subseteq 1 .. n, S # {}
    PROVE  \E i \in S : \A j \in S : j <= i
<1> DEFINE P(m) == S \subseteq 1 .. m => \E i \in S : \A j \in S : j <= i
           T == {m \in Nat : P(m)}
<1>1. 0 \in T
  <2>1. 1 .. 0 = {}
    OBVIOUS
  <2>2. ~(S \subseteq 1 .. 0)
    BY <2>1
  <2> QED BY <2>2
<1>2. ASSUME NEW m \in Nat, m \in T PROVE m + 1 \in T
  <2> SUFFICES ASSUME S \subseteq 1 .. m + 1 PROVE \E i \in S : \A j \in S : j <= i
    OBVIOUS
  <2>1. CASE m + 1 \in S
    BY <2>1
  <2>2. CASE m + 1 \notin S
    <3>1. S \subseteq 1 .. m
      BY <2>2
    <3> QED BY <1>2, <3>1
  <2> QED BY <2>1, <2>2
<1>3. \A m \in Nat : m \in T
  <2> HIDE DEF T
  <2> QED BY <1>1, <1>2, NatSet
<1> QED BY <1>3

LEMMA CaptureFacts ==
    ASSUME NEW list \in Seq(Messages)
    PROVE  LET uses == {i \in DOMAIN list : IsToolUse(list[i])} IN
           /\ uses = {} => Capture(list) = None
           /\ uses # {} => \E i \in uses : /\ Capture(list) = list[i]
                                           /\ list[i] = list[CHOOSE k \in uses : \A j \in uses : j <= k]
<1> DEFINE uses == {i \in DOMAIN list : IsToolUse(list[i])}
<1>1. CASE uses = {}
  BY <1>1 DEF Capture
<1>2. CASE uses # {}
  <2>1. uses \subseteq 1 .. Len(list) /\ Len(list) \in Nat
    OBVIOUS
  <2>2. \E i \in uses : \A j \in uses : j <= i
    <3> HIDE DEF uses
    <3> QED BY <1>2, <2>1, Greatest
  <2> DEFINE last == CHOOSE k \in uses : \A j \in uses : j <= k
  <2>3. last \in uses
    BY <2>2
  <2>4. Capture(list) = list[last]
    BY <1>2 DEF Capture
  <2> QED BY <1>2, <2>3, <2>4
<1> QED BY <1>1, <1>2

LEMMA PauseBridged == TypeInv /\ OutcomeInv /\ PauseInv => PauseIsBridged
<1> SUFFICES ASSUME TypeInv, OutcomeInv, PauseInv, turn.managed, outcome.status = "ended"
             PROVE  /\ outcome.interaction # None => outcome.interaction.tool \in agent.blocking
                    /\ agent.blocking # {} /\ LastUse.tool \in agent.blocking
                          /\ LastUse.kind # "custom" /\ ~YieldedFiles
                       => /\ outcome.interaction # None
                          /\ outcome.interaction.tool = LastUse.tool
  BY DEF PauseIsBridged
<1> DEFINE uses == {i \in DOMAIN said : IsToolUse(said[i])}
<1>1. /\ outcome.interaction = Bridge(said) /\ Sent = said /\ messages = said
      /\ said \in Seq(Managed) /\ said \in Seq(Messages) /\ agent.blocking \subseteq Tools
  BY DEF OutcomeInv, PauseInv, Sent, TypeInv, AgentSet
<1>2. \A i \in DOMAIN said : said[i] \in Messages
  BY <1>1
<1>3. \A i \in uses : /\ said[i].tool \in Tools /\ said[i].kind \in ToolUses
                      /\ said[i].kind # "builtin" /\ agent.blocking # {} => said[i].tool \in agent.blocking
  BY <1>1, <1>2 DEF Messages, WellMade, IsToolUse, PauseInv
<1>4. EndsPaused(said) => IsPause(LastOf(said)) /\ LastOf(said).ids = agent.blocking /\ agent.blocking # {}
  <2> SUFFICES ASSUME EndsPaused(said)
               PROVE  IsPause(LastOf(said)) /\ LastOf(said).ids = agent.blocking /\ agent.blocking # {}
    OBVIOUS
  <2>1. Len(said) \in DOMAIN said /\ IsPause(said[Len(said)])
    BY <1>1 DEF EndsPaused, LastOf, IsPause
  <2> QED BY <1>1, <2>1 DEF PauseInv, LastOf
<1>5. ASSUME outcome.interaction # None PROVE outcome.interaction.tool \in agent.blocking
  <2> DEFINE use == Capture(said)
  <2>1. EndsPaused(said) /\ use # None
    BY <1>1, <1>5 DEF Bridge
  <2>2. PICK i \in uses : use = said[i]
    BY <1>1, <2>1, CaptureFacts
  <2>3. CASE IsConfirmation(use, LastOf(said).ids)
    <3>1. outcome.interaction.tool = use.tool
      BY <1>1, <2>1, <2>3 DEF Bridge
    <3>2. use.tool \in agent.blocking
      BY <1>4, <2>1, <2>3 DEF IsConfirmation
    <3> QED BY <3>1, <3>2
  <2>4. CASE ~IsConfirmation(use, LastOf(said).ids)
    <3>1. use.kind = "question" /\ outcome.interaction.tool = use.tool
      BY <1>1, <1>5, <2>1, <2>4 DEF Bridge
    <3>2. use.tool \in agent.blocking
      BY <1>3, <1>4, <2>1, <2>2, <3>1
    <3> QED BY <3>1, <3>2
  <2> QED BY <2>3, <2>4
<1>6. ASSUME agent.blocking # {}, LastUse.tool \in agent.blocking, LastUse.kind # "custom", ~YieldedFiles
      PROVE  outcome.interaction # None /\ outcome.interaction.tool = LastUse.tool
  <2>1. uses # {}
    <3> SUFFICES ASSUME uses = {} PROVE FALSE
      OBVIOUS
    <3>1. LastUse.tool = None
      BY DEF LastUse, Message
    <3> QED BY <1>1, <1>6, <3>1, NamesAssumption
  <2>2. PICK i \in uses : Capture(said) = said[i] /\ LastUse = said[i]
    <3>1. LastUse = said[CHOOSE k \in uses : \A j \in uses : j <= k]
      BY <2>1 DEF LastUse
    <3>2. PICK i \in uses : /\ Capture(said) = said[i]
                            /\ said[i] = said[CHOOSE k \in uses : \A j \in uses : j <= k]
      BY <1>1, <2>1, CaptureFacts
    <3> QED BY <3>1, <3>2
  <2>3. said[i] # None
    <3>1. None \notin Raw
      BY NamesAssumption DEF Raw, OrNone
    <3> QED BY <1>2, <3>1 DEF Messages
  <2>4. EndsPaused(said)
    <3>1. PICK k \in DOMAIN said :
                IsPause(said[k]) /\ \A j \in DOMAIN said : j > k => IsFile(said[j])
      BY <1>1, <1>6 DEF PauseInv
    <3>2. \A j \in DOMAIN said : ~IsFile(said[j])
      BY <1>6 DEF YieldedFiles, Said, IsFile
    <3>3. k = Len(said) /\ said # <<>>
      BY <1>1, <3>1, <3>2
    <3> QED BY <3>1, <3>3 DEF EndsPaused, LastOf, IsPause
  <2>5. said[i].kind \in {"question", "builtin"}
    BY <1>3, <1>6, <2>2 DEF ToolUses
  <2>6. \A kind \in {"tool_confirmation", "question"} :
            /\ [kind |-> kind, tool |-> said[i].tool] # None
            /\ [kind |-> kind, tool |-> said[i].tool].tool = said[i].tool
    BY <1>3, NamesAssumption
  <2>7. CASE said[i].kind = "builtin"
    <3>1. IsConfirmation(said[i], LastOf(said).ids)
      BY <1>4, <1>6, <2>2, <2>4, <2>7 DEF IsConfirmation
    <3>2. Bridge(said) = [kind |-> "tool_confirmation", tool |-> said[i].tool]
      BY <2>2, <2>3, <2>4, <3>1 DEF Bridge
    <3> QED BY <1>1, <2>2, <2>6, <3>2
  <2>8. CASE said[i].kind = "question"
    <3>1. ~IsConfirmation(said[i], LastOf(said).ids)
      BY <2>8 DEF IsConfirmation
    <3>2. Bridge(said) = [kind |-> "question", tool |-> said[i].tool]
      BY <2>2, <2>3, <2>4, <2>8, <3>1 DEF Bridge
    <3> QED BY <1>1, <2>2, <2>6, <3>2
  <2> QED BY <2>5, <2>7, <2>8
<1> QED BY <1>5, <1>6

(* A managed session that stops for the user is bridged to the user: what   *)
(* is asked is what the session waits for, and a session that waits for its *)
(* last tool call is asked about, whatever other tools it used (hitlBridge).*)
THEOREM PausesBridged == Spec => []PauseIsBridged
<1>1. Init => TypeInv /\ OutcomeInv /\ PauseInv
  BY InitTyped, OutcomeInit, PauseInit
<1>2. TypeInv /\ OutcomeInv /\ PauseInv /\ [Next]_vars => (TypeInv /\ OutcomeInv /\ PauseInv)'
  BY TypesStep, OutcomeStep, PauseStep
<1>3. TypeInv /\ OutcomeInv /\ PauseInv => PauseIsBridged
  BY PauseBridged
<1> QED BY <1>1, <1>2, <1>3, PTL DEF Spec

-------------------------------------------------------------------------------
(***************************************************************************)
(* The result of the turn: once a local agent has concluded it says no     *)
(* more, so that of the results that were collected the last one tells     *)
(* what was processed, unless it repeats an earlier turn.                  *)
(***************************************************************************)
LEMMA SaidGrows ==
    ASSUME TypeInv, NEW m \in Messages, said' = Append(said, m)
    PROVE  Said' = Said \cup {m}
<1>1. said \in Seq(Messages) /\ said' = Append(said, m)
  BY DEF TypeInv
<1>2. /\ DOMAIN said' = DOMAIN said \cup {Len(said) + 1} /\ said'[Len(said) + 1] = m
      /\ \A i \in DOMAIN said : said'[i] = said[i]
  BY <1>1
<1> QED BY <1>2 DEF Said

LEMMA Collected ==
    ASSUME TypeInv, NEW m \in Messages, Handle(m)
    PROVE  messages' = messages \/ messages' = Append(messages, m)
BY DEF Handle, Hide, StreamMessage, Stored, CollectMessage

LEMMA Yielded ==
    ASSUME TypeInv, NEW m, Yields(m)
    PROVE  m \in Managed
<1>1. agent.yields \in Seq(Managed) /\ agent.yields # <<>> /\ m = Head(agent.yields)
  BY DEF Yields, TypeInv, AgentSet
<1> QED BY <1>1

ConcludedInv ==
    ~turn.managed /\ agent.stage # "finished" => \A m \in Said : m.type = "result" => m.old

LEMMA NothingSaid == said = <<>> => Said = {}
BY DEF Said

LEMMA ConcludedInit == Init => ConcludedInv
BY NothingSaid DEF Init, ConcludedInv

(* Whoever speaks has not concluded.                                        *)
LEMMA SpeaksBefore ==
    ASSUME TypeInv, NEW m \in Messages, Sends(m), ~turn.managed
    PROVE  agent.stage # "finished"
BY DEF Sends, Yields, Opens, Repeats, Echoes, Utters, SpeakAfter

LEMMA ConcludedStep == TypeInv /\ ConcludedInv /\ [Next]_vars => ConcludedInv'
<1> SUFFICES ASSUME TypeInv, ConcludedInv, [Next]_vars PROVE ConcludedInv'
  OBVIOUS
<1>1. ASSUME NEW m \in Messages, Sends(m) PROVE ConcludedInv'
  <2>1. CASE turn.managed
    BY <1>1, <2>1 DEF Sends, ConcludedInv
  <2>2. CASE ~turn.managed
    <3>1. agent.stage # "finished" /\ said' = Append(said, m)
      BY <1>1, <2>2, SpeaksBefore DEF Sends, Handle
    <3>2. Said' = Said \cup {m}
      BY <3>1, SaidGrows
    <3>3. m.type = "result" => m.old \/ agent'.stage = "finished"
      <4>1. CASE Opens(m) \/ Echoes(m)
        <5>1. m.type # "result"
          BY <4>1, MessageFacts DEF Opens, Echoes, Message
        <5> QED BY <5>1
      <4>2. CASE Repeats(m)
        BY <4>2 DEF Repeats
      <4>3. CASE Tells(m) \/ Deltas(m) \/ Starts(m) \/ Goes(m) \/ Works(m) \/ Answers(m)
        BY <4>3 DEF Tells, Deltas, Starts, Goes, Works, Answers, IsTaskCall
      <4>4. CASE Concludes(m)
        BY <4>4 DEF Concludes, Moved, TypeInv, AgentSet
      <4> QED BY <1>1, <2>2, <4>1, <4>2, <4>3, <4>4 DEF Sends, Yields, Utters
    <3> QED BY <2>2, <3>1, <3>2, <3>3 DEF ConcludedInv
  <2> QED BY <2>1, <2>2
<1>2. CASE ManagedEvent
  BY <1>2 DEF ManagedEvent, ConcludedInv
<1>3. CASE Closes
  <2>1. UNCHANGED <<turn, agent, said>>
    BY <1>3 DEF Closes, EndQuery, AbortQuery, FailQuery, EmptyQuery
  <2> QED BY <2>1 DEF ConcludedInv, Said
<1>4. CASE RetryQuery
  <2>1. said' = <<>>
    BY <1>4 DEF RetryQuery
  <2> QED BY <2>1 DEF ConcludedInv, Said
<1>5. CASE UNCHANGED vars
  BY <1>5 DEF vars, ConcludedInv, Said
<1> QED BY <1>1, <1>2, <1>3, <1>4, <1>5, Steps

ResultInv ==
    Ends # <<>> =>
        LET end == LastOf(Ends)
            p == ProcessMessages(messages)
        IN  /\ end \in Said /\ IsResult(end)
            /\ p.exhausted = (end.kind = "exhausted") /\ p.isError = IsError(end)
            /\ end.kind # "unmarked" => p.deferred = (end.kind = "deferred")
            /\ end.kind # "unmarked" /\ ~end.old => p.refused = (end.kind = "refusal")

LEMMA ResultInit == Init => ResultInv
<1> SUFFICES ASSUME Init PROVE Ends = <<>>
  BY DEF ResultInv
<1> QED BY KeepingResults DEF Init, Ends

LEMMA ResultStep == TypeInv /\ ConcludedInv /\ ResultInv /\ [Next]_vars => ResultInv'
<1> SUFFICES ASSUME TypeInv, ConcludedInv, ResultInv, [Next]_vars PROVE ResultInv'
  OBVIOUS
<1> DEFINE p == ProcessMessages(messages)
<1>0. messages \in Seq(Messages) /\ Ends \in Seq(Messages) /\ p \in Diagnostics
  BY KeepingResults, Processing DEF TypeInv, Ends
<1>1. ASSUME NEW m \in Messages, Sends(m) PROVE ResultInv'
  <2>1. Said' = Said \cup {m} /\ Handle(m)
    BY <1>1, SaidGrows DEF Sends, Handle
  <2>2. CASE messages' = messages
    <3>1. Ends' = Ends
      BY <2>2 DEF Ends
    <3> QED BY <2>1, <2>2, <3>1 DEF ResultInv
  <2>3. CASE messages' = Append(messages, m)
    <3>1. Ends' = KeepOn(IsResult(m), Ends, m) /\ ProcessMessages(messages') = Process(p, m)
      BY <1>0, <2>3, KeepingResults, Processing DEF Ends
    <3>2. CASE IsResult(m)
      <4>1. Ends' = Append(Ends, m) /\ LastOf(Ends') = m
        BY <1>0, <3>1, <3>2 DEF KeepOn, LastOf
      <4>2. Process(p, m) = ProcessResult(p, m)
        BY <3>2 DEF Process, IsResult
      <4>3. /\ ProcessResult(p, m).exhausted = (m.kind = "exhausted")
            /\ ProcessResult(p, m).isError = IsError(m)
            /\ m.kind # "unmarked" => /\ ProcessResult(p, m).deferred = (m.kind = "deferred")
                                      /\ ProcessResult(p, m).refused = (m.kind = "refusal")
        <5> HIDE DEF p
        <5>1. \A a, b, c, d : LET q == [p EXCEPT !.exhausted = a, !.isError = b, !.deferred = c, !.refused = d]
                              IN  q.exhausted = a /\ q.isError = b /\ q.deferred = c /\ q.refused = d
          BY <1>0 DEF Diagnostics
        <5> QED BY <5>1 DEF ProcessResult
      <4> QED BY <2>1, <3>1, <3>2, <4>1, <4>2, <4>3 DEF ResultInv
    <3>3. CASE ~IsResult(m)
      <4>1. Ends' = Ends
        BY <3>1, <3>3 DEF KeepOn
      <4>2. SUFFICES ASSUME Ends # <<>> PROVE ResultInv'
        BY <4>1 DEF ResultInv
      <4> DEFINE end == LastOf(Ends)
                 q == Process(p, m)
      <4>3. /\ end \in Said /\ IsResult(end)
            /\ p.exhausted = (end.kind = "exhausted") /\ p.isError = IsError(end)
            /\ end.kind # "unmarked" => p.deferred = (end.kind = "deferred")
            /\ end.kind # "unmarked" /\ ~end.old => p.refused = (end.kind = "refusal")
        BY <4>2 DEF ResultInv
      <4>4. m.type = "assistant" /\ m.kind \in {"refusal", "stopped"} => end.old
        <5>1. CASE turn.managed
          <6>1. m \in Managed
            BY <1>1, <5>1, Yielded DEF Sends
          <6> QED BY <6>1 DEF Managed, IsManaged, ToolUses
        <5>2. CASE ~turn.managed
          BY <1>1, <4>3, <5>2, SpeaksBefore DEF ConcludedInv, IsResult
        <5> QED BY <5>1, <5>2
      <4>5. /\ q.exhausted = p.exhausted /\ q.isError = p.isError /\ q.deferred = p.deferred
            /\ ~(m.type = "assistant" /\ m.kind \in {"refusal", "stopped"}) => q.refused = p.refused
        <5>1. CASE m.type = "assistant"
          <6>1. q = ProcessAssistant(p, m)
            BY <5>1 DEF Process, IsResult
          <6> HIDE DEF p
          <6>2. \A a, b : LET r == [p EXCEPT !.refused = a, !.failing = b]
                          IN  r.exhausted = p.exhausted /\ r.isError = p.isError
                              /\ r.deferred = p.deferred /\ r.refused = a
            BY <1>0 DEF Diagnostics
          <6>3. PICK a : a = (m.kind = "refusal" \/ (p.refused /\ m.kind # "stopped"))
            OBVIOUS
          <6>4. m.kind \notin {"refusal", "stopped"} => a = p.refused
            <7>1. p.refused \in BOOLEAN
              BY <1>0 DEF Diagnostics
            <7> QED BY <6>3, <7>1
          <6>5. ProcessAssistant(p, m) = [p EXCEPT !.refused = a, !.failing = p.failing \/ LooksFailed(m)]
            BY <1>0, <6>3 DEF ProcessAssistant, Diagnostics
          <6> QED BY <5>1, <6>1, <6>2, <6>4, <6>5
        <5>2. CASE m.type # "assistant"
          BY <3>3, <5>2 DEF Process
        <5> QED BY <5>1, <5>2
      <4>6. ProcessMessages(messages') = q /\ LastOf(Ends') = end
        BY <3>1, <4>1
      <4> HIDE DEF p, q, end
      <4>7. Ends' # <<>> /\ end \in Said'
        BY <2>1, <4>1, <4>2, <4>3
      <4> QED BY <4>3, <4>4, <4>5, <4>6, <4>7 DEF ResultInv
    <3> QED BY <3>2, <3>3
  <2> QED BY <2>1, <2>2, <2>3, Collected
<1>2. CASE RetryQuery
  <2>1. Ends' = <<>>
    BY <1>2, KeepingResults DEF RetryQuery, Ends
  <2> QED BY <2>1 DEF ResultInv
<1>3. CASE ManagedEvent \/ Closes \/ UNCHANGED vars
  <2>1. UNCHANGED <<messages, said>>
    BY <1>3 DEF ManagedEvent, Closes, EndQuery, AbortQuery, FailQuery, EmptyQuery, vars
  <2> QED BY <2>1 DEF ResultInv, Ends, Said
<1> QED BY <1>1, <1>2, <1>3, Steps

LEMMA OutcomeTold == TypeInv /\ OutcomeInv /\ ResultInv => OutcomeIsThisTurns
<1> SUFFICES ASSUME TypeInv, OutcomeInv, ResultInv, outcome.status = "ended", turn.treats, Ends # <<>>,
                    ~LastOf(Ends).old, LastOf(Ends).kind # "unmarked"
             PROVE  LET end == LastOf(Ends) IN
                    /\ IsError(end) <=> outcome.error \in {"result", "thrown"}
                    /\ (end.kind = "exhausted" /\ turn.onExhausted = "throwError")
                          <=> outcome.error = "thrown"
                    /\ end.kind = "refusal" <=> outcome.error = "refusal"
                    /\ end.kind = "deferred" => outcome.error = None
  BY DEF OutcomeIsThisTurns
<1> DEFINE end == LastOf(Ends)
           p == ProcessMessages(messages)
<1>1. /\ p.exhausted = (end.kind = "exhausted") /\ p.isError = IsError(end)
      /\ p.deferred = (end.kind = "deferred") /\ p.refused = (end.kind = "refusal")
  BY DEF ResultInv
<1>2. outcome.error = AgentError(messages, turn.treats, turn.onExhausted)
  BY DEF OutcomeInv
<1>3. AgentError(messages, turn.treats, turn.onExhausted) =
          IF p.exhausted /\ turn.onExhausted = "throwError" THEN "thrown"
          ELSE IF ~turn.treats \/ p.deferred THEN None
          ELSE IF p.isError THEN "result"
          ELSE IF p.refused THEN "refusal"
          ELSE IF p.failing THEN "text" ELSE None
  BY DEF AgentError
<1> HIDE DEF p, end
<1>4. None \notin {"thrown", "result", "refusal", "text"}
  BY ErrorsAssumption DEF Errors
<1>5. IsError(end) = (end.kind \in {"error", "exhausted"})
  BY DEF IsError
<1> QED BY <1>1, <1>2, <1>3, <1>4, <1>5 DEF end

(* The item's error is what this turn's own result says, whatever results   *)
(* of earlier turns a resumed query repeats before it (processMessages and  *)
(* finalizeExecution).                                                      *)
THEOREM OutcomeIsTold == Spec => []OutcomeIsThisTurns
<1>1. Init => TypeInv /\ OutcomeInv /\ ConcludedInv /\ ResultInv
  BY InitTyped, OutcomeInit, ConcludedInit, ResultInit
<1>2. TypeInv /\ OutcomeInv /\ ConcludedInv /\ ResultInv /\ [Next]_vars
      => (TypeInv /\ OutcomeInv /\ ConcludedInv /\ ResultInv)'
  BY TypesStep, OutcomeStep, ConcludedStep, ResultStep
<1>3. TypeInv /\ OutcomeInv /\ ResultInv => OutcomeIsThisTurns
  BY OutcomeTold
<1> QED BY <1>1, <1>2, <1>3, PTL DEF Spec

-------------------------------------------------------------------------------
(***************************************************************************)
(* The text of subagents: what a client reads from the markers is whose    *)
(* block the handler has open.                                             *)
(***************************************************************************)
LEMMA ReadOne ==
    ASSUME NEW s \in Seq(FrameSet), NEW f \in FrameSet
    PROVE  LET r == Reading(s)
               q == Reading(Append(s, f))
           IN  /\ f.kind \in {"begin", "error"} => q.by = Main /\ q.right = r.right
               /\ f.kind = "open" => q.by = f.by /\ (r.right /\ r.by = Main => q.right)
               /\ f.kind = "close" => q.by = Main /\ (r.right /\ r.by # Main => q.right)
               /\ f.kind = "text" => q.by = f.by /\ (r.right /\ MayBe(r.by, f.by) => q.right)
               /\ f.kind = "end" => q.by = r.by /\ (r.right /\ r.by = Main => q.right)
               /\ f.kind \in {"call", "message"} => q = r
<1>1. Reading(s) \in Readers /\ Reading(Append(s, f)) = ReadFrame(Reading(s), f)
  BY ReadingFrames
<1>2. \A r \in Readers : \A a, b :
          /\ [r EXCEPT !.by = a].by = a /\ [r EXCEPT !.by = a].right = r.right
          /\ [r EXCEPT !.right = b].right = b /\ [r EXCEPT !.right = b].by = r.by
  BY DEF Readers
<1>3. ASSUME NEW r \in Readers
      PROVE  LET q == ReadFrame(r, f)
             IN  /\ f.kind \in {"begin", "error"} => q.by = Main /\ q.right = r.right
                 /\ f.kind = "open" => q.by = f.by /\ (r.right /\ r.by = Main => q.right)
                 /\ f.kind = "close" => q.by = Main /\ (r.right /\ r.by # Main => q.right)
                 /\ f.kind = "text" => q.by = f.by /\ (r.right /\ MayBe(r.by, f.by) => q.right)
                 /\ f.kind = "end" => q.by = r.by /\ (r.right /\ r.by = Main => q.right)
                 /\ f.kind \in {"call", "message"} => q = r
  <2>1. r.right \in BOOLEAN
    BY DEF Readers
  <2>2. CASE f.kind \in {"begin", "error"}
    BY <1>2, <2>2 DEF ReadFrame
  <2>3. CASE f.kind = "open"
    BY <2>3 DEF ReadFrame
  <2>4. CASE f.kind = "close"
    BY <2>4 DEF ReadFrame
  <2>5. CASE f.kind = "text"
    <3>1. PICK b \in BOOLEAN : b = (r.right /\ MayBe(r.by, f.by))
      BY DEF MayBe
    <3>2. ReadFrame(r, f) = [by |-> f.by, right |-> b]
      BY <2>5, <3>1 DEF ReadFrame
    <3>3. ReadFrame(r, f).by = f.by /\ ReadFrame(r, f).right = b
      BY <3>2
    <3> QED BY <2>5, <3>1, <3>3
  <2>6. CASE f.kind = "end"
    <3>1. PICK b \in BOOLEAN : b = (r.right /\ r.by = Main)
      OBVIOUS
    <3>2. ReadFrame(r, f) = [r EXCEPT !.right = b]
      BY <2>6, <3>1 DEF ReadFrame, Readers
    <3>3. ReadFrame(r, f).right = b /\ ReadFrame(r, f).by = r.by
      BY <1>2, <3>2
    <3> QED BY <2>6, <3>1, <3>3
  <2>7. CASE f.kind \in {"call", "message"}
    BY <2>7 DEF ReadFrame
  <2> QED BY <2>2, <2>3, <2>4, <2>5, <2>6, <2>7 DEF FrameSet, FrameKinds
<1> QED BY <1>1, <1>3

\* Whose text the client has read last in what is open, and whose the handler has.
ReadsAs(list, h) ==
    /\ Reading(list).right /\ Reading(list).by = (IF h.inBlock THEN h.current ELSE Main)
    /\ h.inBlock <=> h.current # None

LEMMA TextRead ==
    ASSUME TypeInv, turn.markers, NEW s \in Seq(FrameSet), NEW by \in Authors, NEW t,
           ReadsAs(s, handler), TextFrom(s, by, t)
    PROVE  ReadsAs(t, AfterText(by))
<1> DEFINE h == AfterText(by)
           s1 == Append(s, Close)
           s2 == Append(s, Open(by))
           s3 == Append(s1, Open(by))
<1>1. /\ handler \in HandlerSet /\ handler.current \in Subagents \cup {None} /\ Main \notin Subagents
      /\ None # Main /\ (by # Main => by \in Subagents) /\ None \notin Subagents
  BY NamesAssumption DEF TypeInv, HandlerSet, Authors
<1>2. /\ Close \in FrameSet /\ Close.kind = "close"
      /\ Open(by) \in FrameSet /\ Open(by).kind = "open" /\ Open(by).by \in {by, None}
      /\ Text(by) \in FrameSet /\ Text(by).kind = "text" /\ Text(by).by = by
  BY FrameFacts
<1>3. s1 \in Seq(FrameSet) /\ s2 \in Seq(FrameSet) /\ s3 \in Seq(FrameSet)
  BY <1>2
<1>4. /\ Reading(s1).by = Main /\ (Reading(s).right /\ Reading(s).by # Main => Reading(s1).right)
      /\ Reading(s2).by \in {by, None} /\ (Reading(s).right /\ Reading(s).by = Main => Reading(s2).right)
      /\ Reading(s3).by \in {by, None} /\ (Reading(s1).right /\ Reading(s1).by = Main => Reading(s3).right)
  BY <1>2, <1>3, ReadOne
<1>5. \A l \in Seq(FrameSet) :
         /\ Reading(Append(l, Text(by))).by = by
         /\ Reading(l).right /\ Reading(l).by \in {by, IF by = Main THEN Main ELSE None}
               => Reading(Append(l, Text(by))).right
  BY <1>2, ReadOne DEF MayBe
<1>6. /\ ~TextShown(by) => h = handler
      /\ TextShown(by) /\ SwitchesBlock(by) => h.current = by /\ h.inBlock
      /\ TextShown(by) /\ ~SwitchesBlock(by) /\ LeavesBlock(by) => h.current = None /\ ~h.inBlock
      /\ TextShown(by) /\ ~SwitchesBlock(by) /\ ~LeavesBlock(by) => h = handler
  BY <1>1 DEF AfterText, HandlerSet
<1>7. /\ SwitchesBlock(by) <=> by # Main /\ handler.current # by
      /\ LeavesBlock(by) <=> handler.inBlock /\ (by = Main \/ SwitchesBlock(by))
  BY DEF SwitchesBlock, LeavesBlock
<1> HIDE DEF h, s1, s2, s3
<1>8. CASE ~TextShown(by)
  BY <1>6, <1>8 DEF TextFrom, ReadsAs, h
<1>9. CASE TextShown(by) /\ ~LeavesBlock(by) /\ ~SwitchesBlock(by)
  <2>1. t = Append(s, Text(by)) /\ h = handler
    BY <1>6, <1>9 DEF TextFrom
  <2>2. Reading(s).by = by
    BY <1>1, <1>7, <1>9 DEF ReadsAs
  <2> QED BY <1>5, <2>1, <2>2 DEF ReadsAs, h
<1>10. CASE TextShown(by) /\ LeavesBlock(by) /\ ~SwitchesBlock(by)
  <2>1. t = Append(s1, Text(by)) /\ h.current = None /\ ~h.inBlock /\ by = Main
    BY <1>6, <1>7, <1>10 DEF TextFrom, s1
  <2>2. Reading(s).by # Main
    BY <1>1, <1>7, <1>10 DEF ReadsAs
  <2> QED BY <1>3, <1>4, <1>5, <2>1, <2>2 DEF ReadsAs, h
<1>11. CASE TextShown(by) /\ ~LeavesBlock(by) /\ SwitchesBlock(by)
  <2>1. t = Append(s2, Text(by)) /\ h.current = by /\ h.inBlock /\ by # None /\ by # Main
    BY <1>1, <1>6, <1>7, <1>11 DEF TextFrom, s2
  <2>2. Reading(s).by = Main
    BY <1>7, <1>11 DEF ReadsAs
  <2> QED BY <1>3, <1>4, <1>5, <2>1, <2>2 DEF ReadsAs, h
<1>12. CASE TextShown(by) /\ LeavesBlock(by) /\ SwitchesBlock(by)
  <2>1. t = Append(s3, Text(by)) /\ h.current = by /\ h.inBlock /\ by # None /\ by # Main
    BY <1>1, <1>6, <1>7, <1>12 DEF TextFrom, s1, s3
  <2>2. Reading(s).by # Main
    BY <1>1, <1>7, <1>12 DEF ReadsAs
  <2> QED BY <1>3, <1>4, <1>5, <2>1, <2>2 DEF ReadsAs, h
<1> QED BY <1>8, <1>9, <1>10, <1>11, <1>12

TextInv ==
    turn.markers =>
        /\ Reading(frames).right
        /\ ~turn.streams => frames = <<>>
        /\ outcome.status = "running" => ReadsAs(frames, handler)

LEMMA FreshlyRead == ReadsAs(<<>>, NewHandler)
BY ReadingFrames, NewHandlerTyped DEF ReadsAs, Reader

LEMMA BegunRead ==
    ASSUME NEW s \in Seq(FrameSet), Reading(s).right
    PROVE  /\ Append(s, Frame("begin")) \in Seq(FrameSet)
           /\ ReadsAs(Append(s, Frame("begin")), NewHandler)
BY ReadOne, BeginTyped, NewHandlerTyped DEF ReadsAs

LEMMA TextInit == Init => TextInv
<1> SUFFICES ASSUME Init PROVE TextInv
  OBVIOUS
<1>1. frames = Begin(turn.streams) /\ handler = NewHandler
  BY DEF Init
<1>2. <<>> \in Seq(FrameSet) /\ Reading(<<>>).right
  BY FreshlyRead DEF ReadsAs
<1>3. frames = IF turn.streams THEN Append(<<>>, Frame("begin")) ELSE <<>>
  BY <1>1 DEF Begin
<1>4. ReadsAs(frames, NewHandler)
  BY <1>2, <1>3, FreshlyRead, BegunRead
<1> QED BY <1>1, <1>3, <1>4 DEF TextInv, ReadsAs

LEMMA TurnFixed == TypeInv /\ [Next]_vars => turn' = turn
<1> SUFFICES ASSUME TypeInv, [Next]_vars PROVE turn' = turn
  OBVIOUS
<1>1. ASSUME NEW m \in Messages, Sends(m) PROVE turn' = turn
  BY <1>1 DEF Sends
<1>2. CASE ManagedEvent \/ Closes \/ RetryQuery \/ UNCHANGED vars
  BY <1>2 DEF ManagedEvent, Closes, EndQuery, AbortQuery, FailQuery, EmptyQuery, RetryQuery, vars
<1> QED BY <1>1, <1>2, Steps

LEMMA TextStep == TypeInv /\ TextInv /\ [Next]_vars => TextInv'
<1> SUFFICES ASSUME TypeInv, TextInv, [Next]_vars, turn.markers PROVE TextInv'
  BY TurnFixed DEF TextInv
<1>0. frames \in Seq(FrameSet) /\ Reading(frames).right /\ (~turn.streams => frames = <<>>)
  BY DEF TypeInv, TextInv
<1>1. ASSUME NEW m \in Messages, Sends(m) PROVE TextInv'
  <2>1. turn' = turn /\ outcome' = outcome /\ ReadsAs(frames, handler) /\ Handle(m)
    BY <1>1 DEF Sends, TextInv
  <2>2. CASE CollectMessage(m)
    BY <1>0, <2>1, <2>2 DEF CollectMessage, TextInv, ReadsAs
  <2>3. CASE Hide(m)
    <3>1. PICK b : handler' = [handler EXCEPT !.inPrefix = b] /\ frames' = frames
      BY <2>3 DEF Hide
    <3>2. handler'.inBlock = handler.inBlock /\ handler'.current = handler.current
      BY <3>1 DEF TypeInv, HandlerSet
    <3> QED BY <1>0, <2>1, <3>1, <3>2 DEF TextInv, ReadsAs
  <2>4. CASE StreamMessage(m)
    <3>1. Streamed(m) /\ m.by \in Authors /\ turn.streams
      BY <2>4, StreamFacts DEF Messages, Raw, StreamMessage
    <3>2. ReadsAs(Verbatim(m), handler) /\ Verbatim(m) \in Seq(FrameSet)
      <4>1. PICK f \in FrameSet : f = [Frame("message") EXCEPT !.message = m] /\ f.kind = "message"
        BY MessageFramed
      <4>2. Reading(Append(frames, f)) = Reading(frames)
        BY <1>0, <4>1, ReadOne
      <4> QED BY <2>1, <3>1, <4>1, <4>2 DEF Verbatim, ReadsAs, Streamed
    <3>3. ReadsAs(frames', handler')
      <4>1. CASE ShowsText(m)
        BY <3>1, <3>2, <4>1, TextRead DEF Streamed
      <4>2. CASE ~ShowsText(m)
        <5>1. Reading(frames') = Reading(Verbatim(m))
          <6>1. CASE ShowsCall(m)
            <7>1. PICK f \in FrameSet : f = Call(CallAt(m)) /\ f.kind = "call"
              BY <3>1, <6>1, CallFacts DEF Streamed
            <7> QED BY <3>1, <3>2, <6>1, <7>1, ReadOne DEF Streamed
          <6>2. CASE ~ShowsCall(m)
            BY <3>1, <4>2, <6>2 DEF Streamed
          <6> QED BY <6>1, <6>2
        <5>2. handler'.inBlock = handler.inBlock /\ handler'.current = handler.current
          BY <3>1, <4>2, AfterEventTyped DEF Streamed, ShowsText
        <5> QED BY <3>2, <5>1, <5>2 DEF ReadsAs
      <4> QED BY <4>1, <4>2
    <3> QED BY <2>1, <3>1, <3>3 DEF TextInv, ReadsAs
  <2> QED BY <2>1, <2>2, <2>3, <2>4 DEF Handle
<1>2. CASE EndQuery \/ AbortQuery
  <2>1. /\ outcome'.status # "running" /\ turn' = turn /\ ReadsAs(frames, handler)
        /\ frames' = IF turn.streams THEN frames \o Finalize \o << Frame("end") >> ELSE frames
    BY <1>2 DEF EndQuery, AbortQuery, Finalized, TextInv
  <2>2. CASE turn.streams
    <3> DEFINE s1 == IF handler.inBlock THEN Append(frames, Close) ELSE frames
    <3>1. frames' = Append(s1, Frame("end")) /\ Frame("end") \in FrameSet
      BY <2>1, <2>2, ClosingFrames
    <3>2. /\ Close \in FrameSet /\ Close.kind = "close" /\ Frame("end").kind = "end"
      BY FrameFacts DEF FrameKinds
    <3>3. handler.inBlock => handler.current # Main
      BY <2>1, NamesAssumption DEF TypeInv, HandlerSet, ReadsAs
    <3>4. s1 \in Seq(FrameSet) /\ Reading(s1).right /\ Reading(s1).by = Main
      <4>1. CASE handler.inBlock
        BY <1>0, <2>1, <3>2, <3>3, <4>1, ReadOne DEF ReadsAs
      <4>2. CASE ~handler.inBlock
        BY <1>0, <2>1, <4>2 DEF ReadsAs
      <4> QED BY <4>1, <4>2
    <3> HIDE DEF s1
    <3>5. Reading(frames').right
      BY <3>1, <3>2, <3>4, ReadOne
    <3> QED BY <2>1, <2>2, <3>5 DEF TextInv
  <2>3. CASE ~turn.streams
    BY <1>0, <2>1, <2>3 DEF TextInv
  <2> QED BY <2>2, <2>3
<1>3. CASE FailQuery
  <2>1. outcome'.status = "failed" /\ turn' = turn /\ frames' = Broken
    BY <1>3 DEF FailQuery, TypeInv
  <2>2. CASE turn.streams
    <3> DEFINE s1 == Append(frames, Frame("error"))
    <3>1. /\ frames' = Append(s1, Frame("end"))
          /\ Frame("end") \in FrameSet /\ Frame("error") \in FrameSet
      BY <2>1, <2>2, ClosingFrames DEF Broken
    <3>2. Frame("error").kind = "error" /\ Frame("end").kind = "end"
      BY FrameFacts DEF FrameKinds
    <3>3. s1 \in Seq(FrameSet) /\ Reading(s1).right /\ Reading(s1).by = Main
      BY <1>0, <3>1, <3>2, ReadOne
    <3> HIDE DEF s1
    <3>4. Reading(frames').right
      BY <3>1, <3>2, <3>3, ReadOne
    <3> QED BY <2>1, <2>2, <3>4 DEF TextInv
  <2>3. CASE ~turn.streams
    BY <1>0, <2>1, <2>3 DEF TextInv, Broken
  <2> QED BY <2>2, <2>3
<1>4. CASE EmptyQuery
  <2>1. outcome'.status = "failed" /\ turn' = turn /\ frames' = frames
    BY <1>4 DEF EmptyQuery, TypeInv
  <2> QED BY <1>0, <2>1 DEF TextInv
<1>5. CASE RetryQuery
  <2>1. /\ turn' = turn /\ handler' = NewHandler
        /\ frames' = IF turn.streams THEN Append(frames, Frame("begin")) ELSE frames
    BY <1>0, <1>5, BeginTyped DEF RetryQuery
  <2>2. ReadsAs(frames', NewHandler)
    BY <1>0, <2>1, BegunRead, FreshlyRead
  <2> QED BY <1>0, <2>1, <2>2 DEF TextInv, ReadsAs
<1>6. CASE ManagedEvent \/ UNCHANGED vars
  <2>1. UNCHANGED <<turn, frames, handler, outcome>>
    BY <1>6 DEF ManagedEvent, vars
  <2> QED BY <2>1 DEF TextInv, ReadsAs
<1> QED BY <1>1, <1>2, <1>3, <1>4, <1>5, <1>6, Steps DEF Closes

(* The markers cut the text a client is shown into runs of one author each: *)
(* outside the blocks the main agent's, in a block one subagent's, the one  *)
(* named if the opening marker names any; no block is within a block and    *)
(* none is left open at the end, in whatever order the subagents speak,     *)
(* however queries end and are repeated (streamTextImpl, finalize).         *)
THEOREM TextsAttributed == Spec => []TextAttributed
<1>1. TextInv => TextAttributed
  BY DEF TextInv, TextAttributed, Reading
<1> QED BY <1>1, InitTyped, TypesStep, TextInit, TextStep, PTL DEF Spec

-------------------------------------------------------------------------------
(***************************************************************************)
(* What a message that is sent is to one who watches the stream: one of a  *)
(* managed session, the first of a query, a repetition, the prompt, or     *)
(* what the agent says of its own.                                         *)
(***************************************************************************)
Early == agent.stage \in {"start", "resumed", "replaying"}

(* Before a query speaks it has opened no block and used no task tool.      *)
EarlyInv ==
    /\ Early => (\A a \in Authors : agent.open[a] = NoBlock) /\ Called = {}
    /\ turn.managed => \A m \in Said : m \in Managed

Passes(m) == ~m.old /\ ~IsPrompt(m) /\ ~IsReplay(m)
Quiet(m) == ~IsTaskCall(m) /\ ~IsAnswer(m) /\ m.type # "stream_event"
FromSession(m) == turn.managed /\ m \in Managed /\ Passes(m) /\ Quiet(m) /\ agent'.stage = agent.stage
First(m) ==
    /\ ~turn.managed /\ agent.stage = "start" /\ m.type = "system" /\ Passes(m) /\ Quiet(m)
    /\ agent'.stage \in {"resumed", "open"}
Again(m) ==
    /\ ~turn.managed /\ agent.stage \in {"resumed", "replaying"} /\ agent'.stage = "replaying"
    /\ m.old /\ ~IsPrompt(m) /\ Quiet(m) /\ m.type \in {"user", "assistant", "result"}
    /\ m.type = "user" \/ agent.stage = "resumed" => IsReplay(m)
Prompts(m) ==
    /\ ~turn.managed /\ agent.stage \in {"resumed", "replaying"} /\ agent'.stage = "open"
    /\ IsPrompt(m) /\ ~m.old /\ Quiet(m)
SaysNew(m) ==
    /\ ~turn.managed /\ agent.stage \in SpeakAfter /\ agent'.stage \in {"open", "finished"}
    /\ Passes(m)

LEMMA Saying ==
    ASSUME TypeInv, EarlyInv, NEW m \in Messages, Sends(m)
    PROVE  FromSession(m) \/ First(m) \/ Again(m) \/ Prompts(m) \/ SaysNew(m)
<1>1. agent \in AgentSet /\ agent.stage \in Stages /\ said' = Append(said, m)
  BY DEF TypeInv, AgentSet, Sends, Handle
<1>2. \A stage \in Stages : Moved(stage) => agent'.stage = stage
  BY <1>1 DEF Moved, AgentSet
<1>3. {"resumed", "open", "replaying", "finished"} \subseteq Stages
  BY DEF Stages
<1>4. CASE Yields(m)
  <2>1. m \in Managed /\ turn.managed
    BY <1>4, Yielded DEF Yields
  <2>2. Passes(m) /\ Quiet(m)
    BY <2>1 DEF Managed, IsManaged, Passes, Quiet, IsPrompt, IsReplay, IsTaskCall, IsAnswer, ToolUses
  <2>3. agent'.stage = agent.stage
    BY <1>1, <1>4 DEF Yields, AgentSet
  <2> QED BY <2>1, <2>2, <2>3 DEF FromSession
<1>5. CASE ~turn.managed /\ Opens(m)
  <2>1. Made(m, "system", "init")
    BY <1>5, LocalMade DEF Opens
  <2>2. Passes(m) /\ Quiet(m) /\ m.type = "system"
    BY <2>1 DEF Made, Passes, Quiet, IsPrompt, IsReplay, IsTaskCall, IsAnswer
  <2> QED BY <1>2, <1>3, <1>5, <2>2 DEF Opens, First
<1>6. CASE ~turn.managed /\ Repeats(m)
  <2>1. ~IsPrompt(m) /\ Quiet(m) /\ m.type \in {"user", "assistant", "result"}
        /\ (m.type = "user" => IsReplay(m))
    BY <1>6 DEF Repeats, IsPrompt, IsReplay, IsTaskCall, IsAnswer, Quiet
  <2> QED BY <1>2, <1>3, <1>6, <2>1 DEF Repeats, Again
<1>7. CASE ~turn.managed /\ Echoes(m)
  <2>1. Made(m, "user", "prompt")
    BY <1>7, LocalMade DEF Echoes
  <2>2. IsPrompt(m) /\ ~m.old /\ Quiet(m)
    BY <2>1 DEF Made, IsPrompt, Quiet, IsTaskCall, IsAnswer
  <2> QED BY <1>2, <1>3, <1>7, <2>2 DEF Echoes, Prompts
<1>8. CASE ~turn.managed /\ Utters(m)
  <2>1. agent.stage \in SpeakAfter /\ ~m.old
    BY <1>8 DEF Utters
  <2>2. Passes(m)
    <3>1. ~IsPrompt(m) /\ ~IsReplay(m)
      BY <1>8 DEF Utters, Tells, Deltas, Starts, Goes, Works, Answers, Concludes,
                  IsPrompt, IsReplay, IsTaskCall
    <3> QED BY <2>1, <3>1 DEF Passes
  <2>3. CASE Tells(m) \/ Deltas(m) \/ Concludes(m)
    BY <1>2, <1>3, <1>8, <2>1, <2>2, <2>3 DEF Tells, Deltas, Concludes, SaysNew
  <2>4. CASE Starts(m) \/ Works(m)
    <3>1. agent'.stage = "open"
      BY <1>1, <2>4 DEF Starts, Works, AgentSet
    <3> QED BY <1>8, <2>1, <2>2, <3>1 DEF SaysNew
  <2>5. CASE Goes(m) \/ Answers(m)
    <3>1. agent'.stage = agent.stage
      BY <1>1, <2>5 DEF Goes, Answers, AgentSet
    <3>2. ~Early
      <4>1. m.by \in Authors
        BY DEF Messages, Raw
      <4> QED BY <2>5, <4>1 DEF Goes, Answers, EarlyInv
    <3> QED BY <1>1, <1>8, <2>1, <2>2, <3>1, <3>2 DEF Early, Stages, SaysNew
  <2> QED BY <1>8, <2>3, <2>4, <2>5 DEF Utters
<1> QED BY <1>4, <1>5, <1>6, <1>7, <1>8 DEF Sends

LEMMA CalledGrows ==
    ASSUME TypeInv, NEW m \in Messages, said' = Append(said, m)
    PROVE  Called' = IF IsTaskCall(m) THEN Called \cup {m.tool} ELSE Called
<1>1. Said' = Said \cup {m}
  BY SaidGrows
<1> QED BY <1>1 DEF Called

LEMMA EarlyInit == Init => EarlyInv
<1> SUFFICES ASSUME Init PROVE EarlyInv
  OBVIOUS
<1>1. Said = {}
  BY NothingSaid DEF Init
<1>2. PICK r \in BOOLEAN : agent = NewAgent(r)
  BY DEF Init
<1> QED BY <1>1, <1>2, NewAgentTyped DEF EarlyInv, Called

LEMMA EarlyStep == TypeInv /\ EarlyInv /\ [Next]_vars => EarlyInv'
<1> SUFFICES ASSUME TypeInv, EarlyInv, [Next]_vars PROVE EarlyInv'
  OBVIOUS
<1>1. ASSUME NEW m \in Messages, Sends(m) PROVE EarlyInv'
  <2>1. said' = Append(said, m) /\ turn' = turn
    BY <1>1 DEF Sends, Handle
  <2>2. Said' = Said \cup {m}
    BY <2>1, SaidGrows
  <2>3. turn.managed => m \in Managed
    BY <1>1, Yielded DEF Sends
  <2>4. Early' => Early /\ Quiet(m)
    <3>1. FromSession(m) \/ First(m) \/ Again(m) \/ Prompts(m) \/ SaysNew(m)
      BY <1>1, Saying
    <3> QED BY <3>1 DEF Early, FromSession, First, Again, Prompts, SaysNew
  <2>5. Early' => agent'.open = agent.open
    <3>1. agent \in AgentSet
      BY DEF TypeInv
    <3>2. CASE Yields(m) \/ Opens(m) \/ Repeats(m) \/ Echoes(m) \/ Tells(m) \/ Deltas(m)
               \/ Works(m) \/ Answers(m) \/ Concludes(m)
      BY <3>1, <3>2 DEF Yields, Opens, Repeats, Echoes, Tells, Deltas, Works, Answers, Concludes,
                        Moved, AgentSet
    <3>3. CASE Starts(m)
      BY <3>1, <3>3 DEF Starts, Early, AgentSet
    <3>4. CASE Goes(m)
      <4>1. m.by \in Authors
        BY DEF Messages, Raw
      <4> QED BY <2>4, <3>4, <4>1 DEF Goes, EarlyInv
    <3> QED BY <1>1, <3>2, <3>3, <3>4 DEF Sends, Utters
  <2>6. Quiet(m) => Called' = Called
    BY <2>1, CalledGrows DEF Quiet
  <2> QED BY <2>1, <2>2, <2>3, <2>4, <2>5, <2>6 DEF EarlyInv
<1>2. CASE ManagedEvent
  <2>1. agent'.stage \in {"open", "finished"} /\ UNCHANGED <<turn, said>>
    BY <1>2 DEF ManagedEvent, TypeInv, AgentSet
  <2> QED BY <2>1 DEF EarlyInv, Early, Said
<1>3. CASE RetryQuery
  <2>1. said' = <<>> /\ \E r \in BOOLEAN : agent' = [NewAgent(r) EXCEPT !.queries = agent.queries + 1]
    BY <1>3 DEF RetryQuery
  <2>2. PICK r \in BOOLEAN : agent' = [NewAgent(r) EXCEPT !.queries = agent.queries + 1]
    BY <2>1
  <2>3. agent'.open = NewAgent(r).open
    BY <2>2, NewAgentTyped DEF AgentSet
  <2>4. Said' = {}
    BY <2>1 DEF Said
  <2> QED BY <2>3, <2>4, NewAgentTyped DEF EarlyInv, Called
<1>4. CASE Closes \/ UNCHANGED vars
  <2>1. UNCHANGED <<turn, agent, said>>
    BY <1>4 DEF Closes, EndQuery, AbortQuery, FailQuery, EmptyQuery, vars
  <2> QED BY <2>1 DEF EarlyInv, Early, Called, Said
<1> QED BY <1>1, <1>2, <1>3, <1>4, Steps

(***************************************************************************)
(* What the bracket hides: as long as a query that repeats has not echoed  *)
(* the prompt, and nothing once it has.                                    *)
(***************************************************************************)
InSight == Replayed => Echoed
SightInv ==
    turn.streams /\ turn.suppress =>
        /\ handler.inPrefix => ~InSight
        /\ agent.stage = "replaying" => handler.inPrefix
        /\ agent.stage \in {"start", "resumed"} => ~Replayed
        /\ Early => ~Echoed

LEMMA SightGrows ==
    ASSUME TypeInv, NEW m \in Messages, said' = Append(said, m)
    PROVE  /\ Replayed' <=> Replayed \/ m.old
           /\ Echoed' <=> Echoed \/ IsPrompt(m)
<1>1. Said' = Said \cup {m}
  BY SaidGrows
<1> QED BY <1>1 DEF Replayed, Echoed

LEMMA PrefixAfter ==
    ASSUME TypeInv, NEW m \in Messages, Handle(m)
    PROVE  /\ handler'.inPrefix <=> IF Hidden(m) THEN IsReplay(m) \/ (handler.inPrefix /\ ~EndsPrefix(m))
                                    ELSE handler.inPrefix
           /\ Hidden(m) => UNCHANGED <<frames, messages>>
<1>1. CASE Hide(m)
  <2>1. PICK b : b = (IsReplay(m) \/ (handler.inPrefix /\ ~EndsPrefix(m)))
    OBVIOUS
  <2>2. handler' = [handler EXCEPT !.inPrefix = b] /\ Hidden(m) /\ UNCHANGED <<frames, messages>>
    BY <1>1, <2>1 DEF Hide
  <2>3. handler'.inPrefix = b
    BY <2>2 DEF TypeInv, HandlerSet
  <2> QED BY <2>1, <2>2, <2>3
<1>2. CASE StreamMessage(m)
  <2>1. Streamed(m) /\ ~Hidden(m) /\ m.by \in Authors
    BY <1>2, StreamFacts DEF StreamMessage, Messages, Raw
  <2>2. ShowsText(m) => handler'.inPrefix = handler.inPrefix
    BY <2>1, AfterTextTyped DEF Streamed
  <2>3. ~ShowsText(m) => handler'.inPrefix = handler.inPrefix
    BY <2>1, AfterEventTyped DEF Streamed, ShowsText
  <2> QED BY <2>1, <2>2, <2>3
<1>3. CASE CollectMessage(m)
  BY <1>3 DEF CollectMessage, Hidden
<1> QED BY <1>1, <1>2, <1>3 DEF Handle

LEMMA NeverOld ==
    ASSUME EarlyInv, turn.managed
    PROVE  ~Replayed
BY DEF EarlyInv, Replayed, Managed, IsManaged

LEMMA SightInit == Init => SightInv
<1> SUFFICES ASSUME Init PROVE SightInv
  OBVIOUS
<1>1. Said = {} /\ ~handler.inPrefix
  BY NothingSaid, NewHandlerTyped DEF Init
<1>2. agent.stage = "start"
  BY NewAgentTyped DEF Init
<1> QED BY <1>1, <1>2 DEF SightInv, Replayed, Echoed

LEMMA SightStep == TypeInv /\ EarlyInv /\ SightInv /\ [Next]_vars => SightInv'
<1> SUFFICES ASSUME TypeInv, EarlyInv, SightInv, [Next]_vars, (turn.streams /\ turn.suppress)'
             PROVE  SightInv'
  BY DEF SightInv
<1>1. ASSUME NEW m \in Messages, Sends(m) PROVE SightInv'
  <2>1. said' = Append(said, m) /\ turn' = turn /\ Handle(m)
    BY <1>1 DEF Sends, Handle
  <2>2. (Replayed' <=> Replayed \/ m.old) /\ (Echoed' <=> Echoed \/ IsPrompt(m))
    BY <2>1, SightGrows
  <2>3. handler'.inPrefix <=> IF Hidden(m) THEN IsReplay(m) \/ (handler.inPrefix /\ ~EndsPrefix(m))
                              ELSE handler.inPrefix
    BY <2>1, PrefixAfter
  <2>4. /\ Hidden(m) <=> IsReplay(m) \/ (handler.inPrefix /\ m.type \in {"user", "assistant", "result"})
        /\ EndsPrefix(m) <=> handler.inPrefix /\ m.type = "user" /\ ~IsReplay(m)
    BY <2>1 DEF Hidden, EndsPrefix
  <2>5. /\ handler.inPrefix => ~InSight
        /\ agent.stage = "replaying" => handler.inPrefix
        /\ agent.stage \in {"start", "resumed"} => ~Replayed
        /\ Early => ~Echoed
    BY <2>1 DEF SightInv
  <2>6. FromSession(m) \/ First(m) \/ Again(m) \/ Prompts(m) \/ SaysNew(m)
    BY <1>1, Saying
  <2>7. CASE FromSession(m)
    <3>1. ~Replayed
      BY <2>7, NeverOld DEF FromSession
    <3> QED BY <2>2, <2>3, <2>4, <2>5, <2>7, <3>1 DEF FromSession, Passes, SightInv, InSight, Early
  <2>8. CASE First(m)
    BY <2>2, <2>3, <2>4, <2>5, <2>8 DEF First, Passes, SightInv, InSight, Early
  <2>9. CASE Again(m)
    BY <2>2, <2>3, <2>4, <2>5, <2>9 DEF Again, SightInv, InSight, Early
  <2>10. CASE Prompts(m)
    <3>1. ~IsReplay(m) /\ m.type = "user"
      BY <2>10 DEF Prompts, IsPrompt, IsReplay
    <3> QED BY <2>2, <2>3, <2>4, <2>5, <2>10, <3>1 DEF Prompts, SightInv, InSight, Early
  <2>11. CASE SaysNew(m)
    BY <2>2, <2>3, <2>4, <2>5, <2>11 DEF SaysNew, Passes, SightInv, InSight, Early
  <2> QED BY <2>6, <2>7, <2>8, <2>9, <2>10, <2>11
<1>2. CASE ManagedEvent
  <2>1. agent'.stage \in {"open", "finished"} /\ UNCHANGED <<turn, said, handler>> /\ turn.managed
    BY <1>2 DEF ManagedEvent, TypeInv, AgentSet
  <2> QED BY <2>1, NeverOld DEF SightInv, Early, InSight, Replayed, Echoed, Said
<1>3. CASE RetryQuery
  <2>1. said' = <<>> /\ handler' = NewHandler
    BY <1>3 DEF RetryQuery
  <2>2. PICK r \in BOOLEAN : agent' = [NewAgent(r) EXCEPT !.queries = agent.queries + 1]
    BY <1>3 DEF RetryQuery
  <2>3. agent'.stage = "start"
    BY <2>2, NewAgentTyped DEF AgentSet
  <2>4. Said' = {}
    BY <2>1 DEF Said
  <2> QED BY <2>1, <2>3, <2>4, NewHandlerTyped DEF SightInv, Replayed, Echoed
<1>4. CASE Closes \/ UNCHANGED vars
  <2>1. UNCHANGED <<turn, agent, handler, said>>
    BY <1>4 DEF Closes, EndQuery, AbortQuery, FailQuery, EmptyQuery, vars
  <2> QED BY <2>1 DEF SightInv, Early, InSight, Replayed, Echoed, Said
<1> QED BY <1>1, <1>2, <1>3, <1>4, Steps

(***************************************************************************)
(* The frames of the running query: what a message, the end of a query and *)
(* the next one make of them.                                              *)
(***************************************************************************)
LEMMA FramesFound ==
    ASSUME NEW kind
    PROVE  FramesOf(kind) = FramesIn(kind, frames) /\ FramesOf(kind)' = FramesIn(kind, frames')
<1>1. FramesOf(kind) = FramesIn(kind, frames)
  BY DEF FramesOf, FramesIn, ReadOn
<1>2. (FramesOf(kind) = FramesIn(kind, frames))'
  BY <1>1, PTL
<1> QED BY <1>1, <1>2

LEMMA FoundOne ==
    ASSUME NEW kind, NEW s \in Seq(FrameSet), NEW f \in FrameSet, kind # "begin"
    PROVE  FramesIn(kind, Append(s, f)) =
              IF f.kind = "begin" THEN <<>>
              ELSE IF f.kind = kind THEN Append(FramesIn(kind, s), f) ELSE FramesIn(kind, s)
BY FindingFrames DEF ReadOn

LEMMA FoundText ==
    ASSUME NEW kind \in {"message", "call"}, NEW s \in Seq(FrameSet), NEW by \in Authors, NEW t,
           TextFrom(s, by, t)
    PROVE  FramesIn(kind, t) = FramesIn(kind, s)
<1>1. /\ Close \in FrameSet /\ Close.kind = "close"
      /\ Open(by) \in FrameSet /\ Open(by).kind = "open"
      /\ Text(by) \in FrameSet /\ Text(by).kind = "text"
  BY FrameFacts
<1>2. \A l \in Seq(FrameSet) :
         /\ Append(l, Close) \in Seq(FrameSet) /\ FramesIn(kind, Append(l, Close)) = FramesIn(kind, l)
         /\ Append(l, Open(by)) \in Seq(FrameSet) /\ FramesIn(kind, Append(l, Open(by))) = FramesIn(kind, l)
         /\ FramesIn(kind, Append(l, Text(by))) = FramesIn(kind, l)
  BY <1>1, FoundOne
<1> DEFINE S1 == Append(s, Close)
           S2 == Append(s, Open(by))
           S3 == Append(S1, Open(by))
<1>3. S1 \in Seq(FrameSet) /\ FramesIn(kind, S1) = FramesIn(kind, s)
  BY <1>2
<1>4. S2 \in Seq(FrameSet) /\ FramesIn(kind, S2) = FramesIn(kind, s)
  BY <1>2
<1>5. S3 \in Seq(FrameSet) /\ FramesIn(kind, S3) = FramesIn(kind, s)
  <2> HIDE DEF S1
  <2> QED BY <1>2, <1>3
<1>6. t \in {s, Append(s, Text(by)), Append(S1, Text(by)), Append(S2, Text(by)), Append(S3, Text(by))}
  BY DEF TextFrom
<1> HIDE DEF S1, S2, S3
<1>7. CASE t \in {s, Append(s, Text(by))}
  BY <1>2, <1>7
<1>8. CASE t \in {Append(S1, Text(by)), Append(S2, Text(by)), Append(S3, Text(by))}
  <2>1. ASSUME NEW l \in {S1, S2, S3}, t = Append(l, Text(by)) PROVE FramesIn(kind, t) = FramesIn(kind, s)
    <3>1. l \in Seq(FrameSet) /\ FramesIn(kind, l) = FramesIn(kind, s)
      BY <1>3, <1>4, <1>5
    <3> QED BY <1>2, <2>1, <3>1
  <2> QED BY <1>8, <2>1
<1> QED BY <1>6, <1>7, <1>8

MessageFrame(m) == [Frame("message") EXCEPT !.message = m]
LEMMA FoundStreamed ==
    ASSUME TypeInv, NEW m \in Messages, StreamMessage(m)
    PROVE  /\ FramesOf("message")' = IF Streams("messages") /\ ~IsNoise(m)
                                     THEN Append(FramesOf("message"), MessageFrame(m))
                                     ELSE FramesOf("message")
           /\ FramesOf("call")' = IF ShowsCall(m) THEN Append(FramesOf("call"), Call(CallAt(m)))
                                  ELSE FramesOf("call")
<1>1. frames \in Seq(FrameSet) /\ m.by \in Authors /\ Streamed(m)
  BY StreamFacts DEF TypeInv, Messages, Raw
<1>2. MessageFrame(m) \in FrameSet /\ MessageFrame(m).kind = "message"
  BY FrameFacts DEF MessageFrame
<1>3. /\ FramesIn("message", Verbatim(m)) = IF Streams("messages") /\ ~IsNoise(m)
                                            THEN Append(FramesIn("message", frames), MessageFrame(m))
                                            ELSE FramesIn("message", frames)
      /\ FramesIn("call", Verbatim(m)) = FramesIn("call", frames)
      /\ Verbatim(m) \in Seq(FrameSet)
  <2>1. PICK f \in FrameSet : f = MessageFrame(m) /\ f.kind = "message"
    BY <1>2
  <2>2. FramesIn("message", Append(frames, f)) = Append(FramesIn("message", frames), f)
    BY <1>1, <2>1, FoundOne
  <2>3. FramesIn("call", Append(frames, f)) = FramesIn("call", frames)
    BY <1>1, <2>1, FoundOne
  <2>4. Verbatim(m) = IF Streams("messages") /\ ~IsNoise(m) THEN Append(frames, f) ELSE frames
    BY <2>1 DEF Verbatim, MessageFrame
  <2> QED BY <1>1, <2>1, <2>2, <2>3, <2>4 DEF Streamed
<1>4. ShowsText(m) => /\ FramesIn("message", frames') = FramesIn("message", Verbatim(m))
                      /\ FramesIn("call", frames') = FramesIn("call", Verbatim(m))
  BY <1>1, <1>3, FoundText DEF Streamed
<1>5. ShowsCall(m) => /\ FramesIn("message", frames') = FramesIn("message", Verbatim(m))
                      /\ FramesIn("call", frames') =
                            Append(FramesIn("call", Verbatim(m)), Call(CallAt(m)))
  <2>1. ShowsCall(m) => Call(CallAt(m)) \in FrameSet /\ Call(CallAt(m)).kind = "call"
    BY <1>1, CallFacts DEF Streamed
  <2> SUFFICES ASSUME ShowsCall(m)
               PROVE  /\ FramesIn("message", frames') = FramesIn("message", Verbatim(m))
                      /\ FramesIn("call", frames') =
                            Append(FramesIn("call", Verbatim(m)), Call(CallAt(m)))
    OBVIOUS
  <2>2. PICK f \in FrameSet : f = Call(CallAt(m)) /\ f.kind = "call"
    BY <2>1
  <2>3. frames' = Append(Verbatim(m), f)
    BY <1>1, <2>2 DEF Streamed
  <2>4. FramesIn("message", Append(Verbatim(m), f)) = FramesIn("message", Verbatim(m))
    BY <1>3, <2>2, FoundOne
  <2>5. FramesIn("call", Append(Verbatim(m), f)) = Append(FramesIn("call", Verbatim(m)), f)
    BY <1>3, <2>2, FoundOne
  <2> QED BY <2>2, <2>3, <2>4, <2>5
<1>6. ~(ShowsText(m) /\ ShowsCall(m))
  BY DEF ShowsText, ShowsCall, SpeaksWhole
<1>7. ~ShowsText(m) /\ ~ShowsCall(m) => frames' = Verbatim(m)
  BY <1>1 DEF Streamed
<1>8. /\ FramesOf("message") = FramesIn("message", frames) /\ FramesOf("call") = FramesIn("call", frames)
      /\ FramesOf("message")' = FramesIn("message", frames')
      /\ FramesOf("call")' = FramesIn("call", frames')
  BY FramesFound
<1> QED BY <1>3, <1>4, <1>5, <1>6, <1>7, <1>8

LEMMA FoundClosed ==
    ASSUME TypeInv, Closes, NEW kind \in {"message", "call"}
    PROVE  FramesOf(kind)' = FramesOf(kind)
<1>1. frames \in Seq(FrameSet)
  BY DEF TypeInv
<1>2. /\ Frame("end") \in FrameSet /\ Frame("error") \in FrameSet /\ Close \in FrameSet
      /\ Frame("end").kind = "end" /\ Frame("error").kind = "error" /\ Close.kind = "close"
  BY FrameFacts DEF FrameKinds
<1>3. \A l \in Seq(FrameSet) :
         /\ Append(l, Close) \in Seq(FrameSet) /\ FramesIn(kind, Append(l, Close)) = FramesIn(kind, l)
         /\ Append(l, Frame("error")) \in Seq(FrameSet)
         /\ FramesIn(kind, Append(l, Frame("error"))) = FramesIn(kind, l)
         /\ FramesIn(kind, Append(l, Frame("end"))) = FramesIn(kind, l)
  BY <1>2, FoundOne
<1>4. FramesIn(kind, frames') = FramesIn(kind, frames)
  <2>1. CASE EndQuery \/ AbortQuery
    <3>1. frames' = IF turn.streams THEN (frames \o Finalize) \o << Frame("end") >> ELSE frames
      BY <2>1 DEF EndQuery, AbortQuery
    <3> QED BY <1>1, <1>3, <3>1, ClosingFrames
  <2>2. CASE FailQuery
    <3>1. frames' = IF turn.streams THEN frames \o << Frame("error"), Frame("end") >> ELSE frames
      BY <2>2 DEF FailQuery, Broken
    <3> QED BY <1>1, <1>3, <3>1, ClosingFrames
  <2>3. CASE EmptyQuery
    BY <2>3 DEF EmptyQuery
  <2> QED BY <2>1, <2>2, <2>3 DEF Closes
<1> QED BY <1>4, FramesFound

LEMMA FoundBegun ==
    ASSUME NEW kind \in {"message", "call"}, NEW s \in Seq(FrameSet)
    PROVE  FramesIn(kind, Append(s, Frame("begin"))) = <<>>
BY FoundOne, BeginTyped

(***************************************************************************)
(* A turn streamed to a client that has seen the earlier ones.             *)
(***************************************************************************)
(* A query comes into sight only by the echo of the prompt.                 *)
LEMMA SightBack ==
    ASSUME TypeInv, EarlyInv, NEW m \in Messages, Sends(m), InSight' \/ Early'
    PROVE  InSight \/ Early
<1>1. (Replayed' <=> Replayed \/ m.old) /\ (Echoed' <=> Echoed \/ IsPrompt(m))
  BY SightGrows DEF Sends, Handle
<1>2. FromSession(m) \/ First(m) \/ Again(m) \/ Prompts(m) \/ SaysNew(m)
  BY Saying
<1>3. FromSession(m) => InSight
  BY NeverOld DEF FromSession, InSight
<1>4. SaysNew(m) => (InSight' <=> InSight) /\ ~Early'
  BY <1>1 DEF SaysNew, Passes, InSight, Early
<1> QED BY <1>2, <1>3, <1>4 DEF First, Again, Prompts, Early

(* What is hidden is no news, unless the query is out of sight.             *)
LEMMA HiddenFacts ==
    ASSUME TypeInv, EarlyInv, SightInv, turn.streams, turn.suppress, NEW m \in Messages, Sends(m)
    PROVE  /\ Hidden(m) => (~Fresh(m) /\ Quiet(m)) \/ ~(InSight' \/ Early')
           /\ ~Hidden(m) => ~m.old
<1>1. (Replayed' <=> Replayed \/ m.old) /\ (Echoed' <=> Echoed \/ IsPrompt(m))
  BY SightGrows DEF Sends, Handle
<1>2. Hidden(m) <=> IsReplay(m) \/ (handler.inPrefix /\ m.type \in {"user", "assistant", "result"})
  BY DEF Hidden
<1>3. (handler.inPrefix => ~InSight) /\ (agent.stage = "replaying" => handler.inPrefix)
  BY DEF SightInv
<1>4. CASE FromSession(m)
  <2>1. InSight
    BY <1>4, NeverOld DEF FromSession, InSight
  <2> QED BY <1>2, <1>3, <1>4, <2>1 DEF FromSession, Passes
<1>5. CASE First(m)
  BY <1>2, <1>5 DEF First, Passes
<1>6. CASE Again(m)
  BY <1>2, <1>3, <1>6 DEF Again, Fresh
<1>7. CASE Prompts(m)
  BY <1>7 DEF Prompts, Fresh
<1>8. CASE SaysNew(m)
  <2>1. (InSight' <=> InSight) /\ ~Early' /\ ~m.old /\ ~IsReplay(m)
    BY <1>1, <1>8 DEF SaysNew, Passes, InSight, Early
  <2> QED BY <1>2, <1>3, <2>1
<1> QED BY <1>4, <1>5, <1>6, <1>7, <1>8, Saying

Unframe(list) == [i \in DOMAIN list |-> list[i].message]
LEMMA Unframed ==
    /\ Unframe(<<>>) = <<>>
    /\ \A s \in Seq(FrameSet), f \in FrameSet :
          Unframe(s) \in Seq(Messages) /\ f.message \in Messages =>
              /\ Unframe(Append(s, f)) = Append(Unframe(s), f.message)
              /\ Unframe(Append(s, f)) \in Seq(Messages)
<1>1. Unframe(<<>>) = <<>>
  BY DEF Unframe
<1>2. ASSUME NEW s \in Seq(FrameSet), NEW f \in FrameSet, Unframe(s) \in Seq(Messages), f.message \in Messages
      PROVE  Unframe(Append(s, f)) = Append(Unframe(s), f.message)
  <2>1. DOMAIN Unframe(s) = 1 .. Len(s) /\ \A i \in 1 .. Len(s) : Unframe(s)[i] = s[i].message
    BY DEF Unframe
  <2>2. Len(Unframe(s)) = Len(s)
    BY <1>2, <2>1
  <2>3. Unframe(Append(s, f)) = [i \in 1 .. Len(s) + 1 |-> IF i = Len(s) + 1 THEN f.message ELSE s[i].message]
    BY DEF Unframe
  <2>4. Append(Unframe(s), f.message) =
            [i \in 1 .. Len(s) + 1 |-> IF i = Len(s) + 1 THEN f.message ELSE Unframe(s)[i]]
    BY <1>2, <2>2
  <2>5. \A i \in 1 .. Len(s) + 1 : i # Len(s) + 1 => i \in 1 .. Len(s)
    OBVIOUS
  <2> QED BY <2>1, <2>3, <2>4, <2>5
<1>3. ASSUME NEW s \in Seq(Messages), NEW m \in Messages PROVE Append(s, m) \in Seq(Messages)
  OBVIOUS
<1> QED BY <1>1, <1>2, <1>3

LEMMA FramedIs ==
    /\ FramedMessages = Unframe(FramesOf("message"))
    /\ FramedMessages' = Unframe(FramesOf("message")')
BY DEF FramedMessages, Unframe

KeptInv ==
    turn.streams /\ turn.suppress =>
        /\ \A i \in DOMAIN messages : ~messages[i].old
        /\ FramedMessages \in Seq(Messages)
        /\ \A i \in DOMAIN FramedMessages : ~FramedMessages[i].old
        /\ InSight \/ Early => Kept(Fresh, messages) = Kept(Fresh, said)
        /\ Streams("messages") => Kept(IsWhole, FramedMessages) = Kept(IsShown, messages)

LEMMA NoneOld ==
    ASSUME NEW s \in Seq(Messages), NEW m \in Messages, \A i \in DOMAIN s : ~s[i].old, ~m.old
    PROVE  \A i \in DOMAIN Append(s, m) : ~Append(s, m)[i].old
OBVIOUS

(* A query that begins has framed and collected nothing.                    *)
LEMMA KeptBegun ==
    ASSUME messages' = <<>>, said' = <<>>, NEW s \in Seq(FrameSet),
           (turn.streams /\ turn.suppress)' => frames' = Append(s, Frame("begin"))
    PROVE  KeptInv'
<1> SUFFICES ASSUME (turn.streams /\ turn.suppress)' PROVE KeptInv'
  BY DEF KeptInv
<1>1. FramesOf("message")' = <<>>
  BY FramesFound, FoundBegun
<1>2. FramedMessages' = <<>>
  BY <1>1, FramedIs, Unframed
<1>3. Kept(Fresh, <<>>) = <<>> /\ Kept(IsWhole, <<>>) = <<>> /\ Kept(IsShown, <<>>) = <<>>
  BY KeepingFresh, KeepingWhole, KeepingShown
<1> QED BY <1>2, <1>3 DEF KeptInv

LEMMA KeptInit == Init => KeptInv
<1> SUFFICES ASSUME Init, turn.streams, turn.suppress PROVE KeptInv
  BY DEF KeptInv
<1>1. messages = <<>> /\ said = <<>> /\ frames = Append(<<>>, Frame("begin"))
  BY DEF Init, Begin
<1>2. FramesOf("message") = <<>>
  <2>1. <<>> \in Seq(FrameSet)
    OBVIOUS
  <2>2. FramesIn("message", Append(<<>>, Frame("begin"))) = <<>>
    BY <2>1, FoundBegun
  <2> QED BY <1>1, <2>2, FramesFound
<1>3. FramedMessages = <<>>
  BY <1>2, FramedIs, Unframed
<1>4. Kept(Fresh, <<>>) = <<>> /\ Kept(IsWhole, <<>>) = <<>> /\ Kept(IsShown, <<>>) = <<>>
  BY KeepingFresh, KeepingWhole, KeepingShown
<1> QED BY <1>1, <1>3, <1>4 DEF KeptInv

LEMMA KeptSends ==
    ASSUME TypeInv, EarlyInv, SightInv, KeptInv, NEW m \in Messages, Sends(m), turn.streams, turn.suppress
    PROVE  KeptInv'
<1>1. said' = Append(said, m) /\ turn' = turn /\ Handle(m) /\ messages \in Seq(Messages) /\ said \in Seq(Messages)
  BY DEF Sends, Handle, TypeInv
<1>2. InSight' \/ Early' => InSight \/ Early
  BY SightBack
<1>3. Kept(Fresh, said') = KeepOn(Fresh(m), Kept(Fresh, said), m)
  BY <1>1, KeepingFresh
<1>4. /\ \A i \in DOMAIN messages : ~messages[i].old
      /\ FramedMessages \in Seq(Messages)
      /\ \A i \in DOMAIN FramedMessages : ~FramedMessages[i].old
      /\ InSight \/ Early => Kept(Fresh, messages) = Kept(Fresh, said)
      /\ Streams("messages") => Kept(IsWhole, FramedMessages) = Kept(IsShown, messages)
  BY DEF KeptInv
<1>5. CASE Hidden(m)
  <2>1. UNCHANGED <<frames, messages>> /\ (~Fresh(m) \/ ~(InSight' \/ Early'))
    BY <1>1, <1>5, PrefixAfter, HiddenFacts
  <2>2. FramedMessages' = FramedMessages
    <3>1. FramesOf("message")' = FramesOf("message")
      BY <2>1, FramesFound
    <3> QED BY <3>1, FramedIs
  <2>3. InSight' \/ Early' => Kept(Fresh, messages) = Kept(Fresh, said')
    BY <1>2, <1>3, <1>4, <2>1 DEF KeepOn
  <2> QED BY <1>1, <1>4, <2>1, <2>2, <2>3 DEF KeptInv, Streams
<1>6. CASE ~Hidden(m)
  <2>1. ~m.old /\ StreamMessage(m)
    BY <1>1, <1>6, HiddenFacts DEF Handle, Hide, CollectMessage
  <2>2. messages' = IF m.type = "stream_event" THEN messages ELSE Append(messages, m)
    BY <2>1 DEF StreamMessage, Stored
  <2>3. \A i \in DOMAIN messages' : ~messages'[i].old
    BY <1>1, <1>4, <2>1, <2>2, NoneOld
  <2>4. InSight' \/ Early' => Kept(Fresh, messages') = Kept(Fresh, said')
    <3>1. Kept(Fresh, messages') = KeepOn(Fresh(m), Kept(Fresh, messages), m)
      <4>1. CASE m.type = "stream_event"
        BY <2>2, <4>1 DEF Fresh, IsWhole, KeepOn
      <4>2. CASE m.type # "stream_event"
        BY <1>1, <2>2, <4>2, KeepingFresh
      <4> QED BY <4>1, <4>2
    <3> QED BY <1>2, <1>3, <1>4, <3>1
  <2>5. FramedMessages' = IF Streams("messages") /\ ~IsNoise(m) THEN Append(FramedMessages, m)
                          ELSE FramedMessages
    <3>1. PICK f \in FrameSet : f = MessageFrame(m) /\ f.message = m
      BY MessageFramed DEF MessageFrame
    <3>2. FramesOf("message") \in Seq(FrameSet)
      BY FramesFound, FindingFrames DEF TypeInv
    <3>3. FramesOf("message")' = IF Streams("messages") /\ ~IsNoise(m)
                                 THEN Append(FramesOf("message"), f) ELSE FramesOf("message")
      BY <2>1, <3>1, FoundStreamed
    <3>4. Unframe(Append(FramesOf("message"), f)) = Append(FramedMessages, m)
      BY <1>4, <3>1, <3>2, FramedIs, Unframed
    <3> QED BY <3>3, <3>4, FramedIs
  <2>6. FramedMessages' \in Seq(Messages) /\ \A i \in DOMAIN FramedMessages' : ~FramedMessages'[i].old
    BY <1>4, <2>1, <2>5, NoneOld
  <2>7. Streams("messages") => Kept(IsWhole, FramedMessages') = Kept(IsShown, messages')
    <3> SUFFICES ASSUME Streams("messages") PROVE Kept(IsWhole, FramedMessages') = Kept(IsShown, messages')
      OBVIOUS
    <3>1. Kept(IsWhole, Append(FramedMessages, m)) = KeepOn(IsWhole(m), Kept(IsWhole, FramedMessages), m)
      BY <1>4, KeepingWhole
    <3>2. Kept(IsShown, Append(messages, m)) = KeepOn(IsShown(m), Kept(IsShown, messages), m)
      BY <1>1, KeepingShown
    <3>3. CASE m.type = "stream_event"
      <4>1. ~IsNoise(m) /\ ~IsWhole(m)
        BY <3>3 DEF IsNoise, IsWhole
      <4> QED BY <1>4, <2>2, <2>5, <3>1, <3>3, <4>1 DEF KeepOn
    <3>4. CASE m.type # "stream_event"
      BY <1>4, <2>2, <2>5, <3>1, <3>2, <3>4 DEF KeepOn, IsShown, IsWhole
    <3> QED BY <3>3, <3>4
  <2> QED BY <1>1, <2>3, <2>4, <2>6, <2>7 DEF KeptInv, Streams
<1> QED BY <1>5, <1>6

LEMMA KeptStep == TypeInv /\ EarlyInv /\ SightInv /\ KeptInv /\ [Next]_vars => KeptInv'
<1> SUFFICES ASSUME TypeInv, EarlyInv, SightInv, KeptInv, [Next]_vars, turn.streams, turn.suppress
             PROVE  KeptInv'
  BY TurnFixed DEF KeptInv
<1>1. ASSUME NEW m \in Messages, Sends(m) PROVE KeptInv'
  BY <1>1, KeptSends
<1>2. CASE RetryQuery
  <2>1. messages' = <<>> /\ said' = <<>> /\ frames' = Append(frames, Frame("begin")) /\ frames \in Seq(FrameSet)
    BY <1>2, BeginTyped DEF RetryQuery, TypeInv
  <2> QED BY <2>1, KeptBegun
<1>3. CASE ManagedEvent \/ Closes \/ UNCHANGED vars
  <2>1. UNCHANGED <<turn, messages, said>>
    BY <1>3 DEF ManagedEvent, Closes, EndQuery, AbortQuery, FailQuery, EmptyQuery, vars
  <2>2. FramesOf("message")' = FramesOf("message")
    <3>1. CASE Closes
      BY <3>1, FoundClosed
    <3>2. CASE ManagedEvent \/ UNCHANGED vars
      <4>1. frames' = frames
        BY <3>2 DEF ManagedEvent, vars
      <4> QED BY <4>1, FramesFound
    <3> QED BY <1>3, <3>1, <3>2
  <2>3. FramedMessages' = FramedMessages
    BY <2>2, FramedIs
  <2>4. InSight' \/ Early' => InSight \/ Early
    <3>1. InSight' <=> InSight
      BY <2>1 DEF InSight, Replayed, Echoed, Said
    <3>2. Early' => Early
      <4>1. ManagedEvent => ~Early'
        BY DEF ManagedEvent, Early, TypeInv, AgentSet
      <4>2. Closes \/ UNCHANGED vars => agent' = agent
        BY DEF Closes, EndQuery, AbortQuery, FailQuery, EmptyQuery, vars
      <4> QED BY <1>3, <4>1, <4>2 DEF Early
    <3> QED BY <3>1, <3>2
  <2> QED BY <2>1, <2>3, <2>4 DEF KeptInv, Streams
<1> QED BY <1>1, <1>2, <1>3, Steps

(* A client that has seen the earlier turns is shown nothing of them again  *)
(* and all of this one, once the query has echoed the prompt, and what it   *)
(* is shown verbatim is what is collected (executeStreaming).               *)
THEOREM TurnsAreKept == Spec => []TurnIsKept
<1>1. Init => TypeInv /\ EarlyInv /\ SightInv /\ KeptInv
  BY InitTyped, EarlyInit, SightInit, KeptInit
<1>2. TypeInv /\ EarlyInv /\ SightInv /\ KeptInv /\ [Next]_vars => (TypeInv /\ EarlyInv /\ SightInv /\ KeptInv)'
  BY TypesStep, EarlyStep, SightStep, KeptStep
<1>3. KeptInv => TurnIsKept
  BY DEF KeptInv, TurnIsKept, InSight
<1> QED BY <1>1, <1>2, <1>3, PTL DEF Spec

-------------------------------------------------------------------------------
(***************************************************************************)
(* The tasks: what the tracking has remembered and what the tools have     *)
(* done, over the messages that are in sight.                              *)
(***************************************************************************)
Settled ==
    \E n \in DOMAIN said :
        /\ IsAnswer(said[n])
        /\ \A i \in n + 1 .. Len(said) : ~IsAnswer(said[i]) /\ said[i].kind # "update"
InView == (turn.suppress => InSight) \/ Early
TaskInv ==
    InView =>
        /\ Tasks(messages).calls = {m \in Said : IsTaskCall(m)}
        /\ Effect(said).updates = {m.tool : m \in {m \in Said : IsTaskCall(m) /\ m.kind = "update"}}
        /\ Settled => Tasks(messages).status = Effect(said).status

LEMMA NothingTracked ==
    /\ Tasks(<<>>).calls = {} /\ Tasks(<<>>).status = None
    /\ Effect(<<>>).updates = {} /\ Effect(<<>>).status = None
<1>1. Tasks(<<>>) = NoTasks /\ Effect(<<>>) = NoEffect
  BY Tracking, CarryingOut
<1> QED BY <1>1 DEF NoTasks, NoEffect

LEMMA TaskInit == Init => TaskInv
<1> SUFFICES ASSUME Init PROVE TaskInv
  OBVIOUS
<1>1. messages = <<>> /\ said = <<>> /\ Said = {}
  BY NothingSaid DEF Init
<1> QED BY <1>1, NothingTracked DEF TaskInv

(* An answer is sent for a call of the agent, and a list tells the status.  *)
LEMMA AnswerFacts ==
    ASSUME TypeInv, NEW m \in Messages, Sends(m), IsAnswer(m)
    PROVE  m.tool \in Called /\ m.ids = {Applied}
<1>1. CASE Yields(m)
  <2>1. m \in Managed
    BY <1>1, Yielded
  <2> QED BY <2>1 DEF Managed, IsManaged, IsAnswer
<1>2. CASE Opens(m)
  <2>1. Made(m, "system", "init")
    BY <1>2, LocalMade DEF Opens
  <2> QED BY <2>1 DEF Made, IsAnswer
<1>3. CASE Repeats(m)
  BY <1>3 DEF Repeats, IsReplay, IsAnswer
<1>4. CASE Echoes(m)
  <2>1. Made(m, "user", "prompt")
    BY <1>4, LocalMade DEF Echoes
  <2> QED BY <2>1 DEF Made, IsAnswer
<1>5. CASE Utters(m)
  <2>1. Answers(m)
    BY <1>5 DEF Utters, Tells, Deltas, Starts, Goes, Works, Concludes, IsAnswer, IsTaskCall
  <2> QED BY <2>1 DEF Answers
<1> QED BY <1>1, <1>2, <1>3, <1>4, <1>5 DEF Sends

(* What one more message does to what is tracked and to what is done.       *)
LEMMA TrackOne ==
    ASSUME NEW t \in Tracks, NEW m \in Messages
    PROVE  LET r == Track(t, m)
               Remembers(kind) == \E call \in t.calls : call.tool = m.tool /\ call.kind = kind
           IN  /\ ~IsTaskCall(m) /\ ~IsAnswer(m) => r = t
               /\ IsTaskCall(m) => r.calls = t.calls \cup {m} /\ (m.kind # "update" => r.status = t.status)
               /\ IsAnswer(m) =>
                     /\ r.calls = t.calls
                     /\ Remembers("update") => r.status = m.tool
                     /\ ~Remembers("update") /\ Remembers("list") => r.status = CHOOSE s \in m.ids : TRUE
<1>1. ~(IsTaskCall(m) /\ IsAnswer(m))
  BY DEF IsTaskCall, IsAnswer
<1>2. CASE ~IsTaskCall(m) /\ ~IsAnswer(m)
  BY <1>2 DEF Track
<1>3. CASE IsTaskCall(m)
  BY <1>1, <1>3 DEF Track, TrackCall
<1>4. CASE IsAnswer(m)
  <2>1. Track(t, m) = TrackAnswer(t, m)
    BY <1>1, <1>4 DEF Track
  <2>2. \A s : [t EXCEPT !.status = s].status = s /\ [t EXCEPT !.status = s].calls = t.calls
    BY DEF Tracks
  <2> QED BY <1>1, <1>4, <2>1, <2>2 DEF TrackAnswer
<1> QED BY <1>2, <1>3, <1>4

LEMMA CarryOne ==
    ASSUME NEW t \in Effects, NEW m \in Messages
    PROVE  LET r == CarryOut(t, m)
           IN  /\ ~IsTaskCall(m) /\ ~IsAnswer(m) => r = t
               /\ IsTaskCall(m) => /\ r.status = t.status
                                   /\ r.updates = IF m.kind = "update" THEN t.updates \cup {m.tool} ELSE t.updates
               /\ IsAnswer(m) => /\ r.updates = t.updates
                                 /\ r.status = IF m.tool \in t.updates THEN m.tool ELSE t.status
<1>1. ~(IsTaskCall(m) /\ IsAnswer(m))
  BY DEF IsTaskCall, IsAnswer
<1>2. \A x : /\ [t EXCEPT !.status = x].status = x /\ [t EXCEPT !.status = x].updates = t.updates
             /\ [t EXCEPT !.updates = x].updates = x /\ [t EXCEPT !.updates = x].status = t.status
  BY DEF Effects
<1>3. CASE IsTaskCall(m)
  <2>1. CarryOut(t, m) = IF m.kind = "update" THEN [t EXCEPT !.updates = t.updates \cup {m.tool}] ELSE t
    BY <1>1, <1>3 DEF CarryOut, Effects
  <2> QED BY <1>1, <1>2, <1>3, <2>1
<1>4. CASE IsAnswer(m)
  <2>1. CarryOut(t, m) = IF m.tool \in t.updates THEN [t EXCEPT !.status = m.tool] ELSE t
    BY <1>1, <1>4 DEF CarryOut
  <2> QED BY <1>1, <1>2, <1>4, <2>1
<1>5. CASE ~IsTaskCall(m) /\ ~IsAnswer(m)
  BY <1>5 DEF CarryOut
<1> QED BY <1>3, <1>4, <1>5

(* What a settled list still is without its last element.                   *)
LEMMA SettledBefore ==
    ASSUME TypeInv, NEW m \in Messages, said' = Append(said, m), Settled', ~IsAnswer(m)
    PROVE  Settled /\ m.kind # "update"
<1>1. /\ DOMAIN said' = 1 .. Len(said) + 1 /\ Len(said') = Len(said) + 1 /\ said'[Len(said) + 1] = m
      /\ \A i \in 1 .. Len(said) : said'[i] = said[i]
      /\ DOMAIN said = 1 .. Len(said) /\ Len(said) \in Nat
  BY DEF TypeInv
<1>2. PICK n \in DOMAIN said' :
        /\ IsAnswer(said'[n])
        /\ \A i \in n + 1 .. Len(said') : ~IsAnswer(said'[i]) /\ said'[i].kind # "update"
  BY DEF Settled
<1>3. n \in 1 .. Len(said)
  BY <1>1, <1>2
<1>4. \A i \in n + 1 .. Len(said) : ~IsAnswer(said[i]) /\ said[i].kind # "update"
  BY <1>1, <1>2, <1>3
<1>5. m.kind # "update"
  BY <1>1, <1>2, <1>3
<1> QED BY <1>1, <1>2, <1>3, <1>4, <1>5 DEF Settled

(* Whatever works on tasks is stored as long as it is in view.              *)
LEMMA WorkStored ==
    ASSUME TypeInv, EarlyInv, SightInv, NEW m \in Messages, Sends(m), InView',
           IsTaskCall(m) \/ IsAnswer(m)
    PROVE  messages' = Append(messages, m)
<1>1. ~Hidden(m)
  <2>1. CASE turn.streams /\ turn.suppress
    <3>1. turn' = turn
      BY DEF Sends
    <3>2. InSight' \/ Early'
      BY <2>1, <3>1 DEF InView
    <3>3. ~Quiet(m)
      BY DEF Quiet
    <3> QED BY <2>1, <3>2, <3>3, HiddenFacts
  <2>2. CASE ~(turn.streams /\ turn.suppress)
    BY <2>2 DEF Hidden
  <2> QED BY <2>1, <2>2
<1>2. m.type # "stream_event"
  BY DEF IsTaskCall, IsAnswer
<1> QED BY <1>1, <1>2 DEF Sends, Handle, Hide, StreamMessage, Stored, CollectMessage

LEMMA TaskSends ==
    ASSUME TypeInv, EarlyInv, SightInv, TaskInv, NEW m \in Messages, Sends(m), InView'
    PROVE  TaskInv'
<1> DEFINE t == Tasks(messages)
           e == Effect(said)
<1>1. /\ said' = Append(said, m) /\ turn' = turn /\ Handle(m)
      /\ messages \in Seq(Messages) /\ said \in Seq(Messages)
  BY DEF Sends, Handle, TypeInv
<1>2. Said' = Said \cup {m}
  BY <1>1, SaidGrows
<1>3. InView
  BY <1>1, SightBack DEF InView
<1>4. /\ t \in Tracks /\ Tasks(Append(messages, m)) = Track(t, m)
      /\ e \in Effects /\ Effect(said') = CarryOut(e, m)
  BY <1>1, Tracking, CarryingOut
<1>5. /\ t.calls = {c \in Said : IsTaskCall(c)}
      /\ e.updates = {c.tool : c \in {c \in Said : IsTaskCall(c) /\ c.kind = "update"}}
      /\ Settled => t.status = e.status
  BY <1>3 DEF TaskInv
<1>6. Tasks(messages)' = Tasks(messages') /\ Effect(said)' = Effect(said')
  OBVIOUS
<1> HIDE DEF t, e
<1>7. CASE ~IsTaskCall(m) /\ ~IsAnswer(m)
  <2>1. Effect(said') = e
    BY <1>4, <1>7, CarryOne
  <2>2. Tasks(messages') = t
    <3>1. CASE messages' = messages
      BY <3>1 DEF t
    <3>2. CASE messages' = Append(messages, m)
      BY <1>4, <1>7, <3>2, TrackOne
    <3> QED BY <1>1, <3>1, <3>2, Collected
  <2>3. /\ {c \in Said' : IsTaskCall(c)} = {c \in Said : IsTaskCall(c)}
        /\ {c \in Said' : IsTaskCall(c) /\ c.kind = "update"} = {c \in Said : IsTaskCall(c) /\ c.kind = "update"}
    BY <1>2, <1>7
  <2>4. Settled' => Settled
    BY <1>1, <1>7, SettledBefore
  <2> QED BY <1>5, <2>1, <2>2, <2>3, <2>4 DEF TaskInv
<1>8. CASE IsTaskCall(m)
  <2>1. messages' = Append(messages, m) /\ ~IsAnswer(m)
    BY <1>8, WorkStored DEF IsTaskCall, IsAnswer
  <2>2. /\ Tasks(messages').calls = t.calls \cup {m}
        /\ m.kind # "update" => Tasks(messages').status = t.status
    BY <1>4, <1>8, <2>1, TrackOne
  <2>3. /\ Effect(said').status = e.status
        /\ Effect(said').updates = IF m.kind = "update" THEN e.updates \cup {m.tool} ELSE e.updates
    BY <1>4, <1>8, CarryOne
  <2>4. {c \in Said' : IsTaskCall(c)} = {c \in Said : IsTaskCall(c)} \cup {m}
    BY <1>2, <1>8
  <2>5. {c.tool : c \in {c \in Said' : IsTaskCall(c) /\ c.kind = "update"}} =
           IF m.kind = "update" THEN {c.tool : c \in {c \in Said : IsTaskCall(c) /\ c.kind = "update"}} \cup {m.tool}
           ELSE {c.tool : c \in {c \in Said : IsTaskCall(c) /\ c.kind = "update"}}
    BY <1>2, <1>8
  <2>6. Settled' => Settled /\ m.kind # "update"
    BY <1>1, <2>1, SettledBefore
  <2> QED BY <1>5, <2>2, <2>3, <2>4, <2>5, <2>6 DEF TaskInv
<1>9. CASE IsAnswer(m)
  <2>1. messages' = Append(messages, m) /\ ~IsTaskCall(m)
    BY <1>9, WorkStored DEF IsTaskCall, IsAnswer
  <2>2. m.tool \in Called /\ m.ids = {e.status}
    BY <1>9, AnswerFacts DEF Applied, Effect, NoEffect, e
  <2>3. \E c \in t.calls : c.tool = m.tool /\ c.kind \in {"update", "list"}
    BY <1>5, <2>2 DEF Called, IsTaskCall
  <2>4. m.tool \in e.updates <=> \E c \in t.calls : c.tool = m.tool /\ c.kind = "update"
    BY <1>5
  <2>5. /\ Tasks(messages').calls = t.calls
        /\ (\E c \in t.calls : c.tool = m.tool /\ c.kind = "update") => Tasks(messages').status = m.tool
        /\ ~(\E c \in t.calls : c.tool = m.tool /\ c.kind = "update")
           /\ (\E c \in t.calls : c.tool = m.tool /\ c.kind = "list")
              => Tasks(messages').status = CHOOSE s \in m.ids : TRUE
    BY <1>4, <1>9, <2>1, TrackOne
  <2>6. /\ Effect(said').updates = e.updates
        /\ Effect(said').status = IF m.tool \in e.updates THEN m.tool ELSE e.status
    BY <1>4, <1>9, CarryOne
  <2>7. (CHOOSE s \in m.ids : TRUE) = e.status
    BY <2>2
  <2>8. Tasks(messages').status = Effect(said').status
    BY <2>3, <2>4, <2>5, <2>6, <2>7
  <2>9. /\ {c \in Said' : IsTaskCall(c)} = {c \in Said : IsTaskCall(c)}
        /\ {c \in Said' : IsTaskCall(c) /\ c.kind = "update"} = {c \in Said : IsTaskCall(c) /\ c.kind = "update"}
    BY <1>2, <2>1
  <2> QED BY <1>5, <2>5, <2>6, <2>8, <2>9 DEF TaskInv
<1> QED BY <1>7, <1>8, <1>9

LEMMA TaskStep == TypeInv /\ EarlyInv /\ SightInv /\ TaskInv /\ [Next]_vars => TaskInv'
<1> SUFFICES ASSUME TypeInv, EarlyInv, SightInv, TaskInv, [Next]_vars, InView' PROVE TaskInv'
  BY DEF TaskInv
<1>1. ASSUME NEW m \in Messages, Sends(m) PROVE TaskInv'
  BY <1>1, TaskSends
<1>2. CASE RetryQuery
  <2>1. messages' = <<>> /\ said' = <<>> /\ Said' = {}
    BY <1>2 DEF RetryQuery, Said
  <2> QED BY <2>1, NothingTracked DEF TaskInv
<1>3. CASE ManagedEvent \/ Closes \/ UNCHANGED vars
  <2>1. UNCHANGED <<turn, messages, said>>
    BY <1>3 DEF ManagedEvent, Closes, EndQuery, AbortQuery, FailQuery, EmptyQuery, vars
  <2>2. InSight' <=> InSight
    BY <2>1 DEF InSight, Replayed, Echoed, Said
  <2>3. Early' => Early
    <3>1. ManagedEvent => ~Early'
      BY DEF ManagedEvent, Early, TypeInv, AgentSet
    <3>2. Closes \/ UNCHANGED vars => agent' = agent
      BY DEF Closes, EndQuery, AbortQuery, FailQuery, EmptyQuery, vars
    <3> QED BY <1>3, <3>1, <3>2 DEF Early
  <2>4. InView
    BY <2>1, <2>2, <2>3 DEF InView
  <2> QED BY <2>1, <2>4 DEF TaskInv, Settled, Said
<1> QED BY <1>1, <1>2, <1>3, Steps

(* The status a result tells of the task is the one the tools left it in,   *)
(* once the last task tool is answered and no update was called after       *)
(* (executionTracking), provided a query that repeats the earlier turns to  *)
(* a client that has seen them echoes the prompt.                           *)
THEOREM TasksAreTold == Spec => []TasksMatchAgent
<1>1. Init => TypeInv /\ OutcomeInv /\ EarlyInv /\ SightInv /\ TaskInv
  BY InitTyped, OutcomeInit, EarlyInit, SightInit, TaskInit
<1>2. TypeInv /\ OutcomeInv /\ EarlyInv /\ SightInv /\ TaskInv /\ [Next]_vars
      => (TypeInv /\ OutcomeInv /\ EarlyInv /\ SightInv /\ TaskInv)'
  BY TypesStep, OutcomeStep, EarlyStep, SightStep, TaskStep
<1>3. OutcomeInv /\ TaskInv => TasksMatchAgent
  <2> SUFFICES ASSUME OutcomeInv, TaskInv, outcome.status = "ended", turn.suppress /\ Replayed => Echoed,
                      Settled
               PROVE  outcome.task = Applied
    BY DEF TasksMatchAgent, Settled
  <2>1. outcome.task = Tasks(messages).status
    BY DEF OutcomeInv, TrackedStatus, Tasks
  <2>2. Applied = Effect(said).status
    BY DEF Applied, Effect, NoEffect
  <2> QED BY <2>1, <2>2 DEF TaskInv, InView, InSight
<1> QED BY <1>1, <1>2, <1>3, PTL DEF Spec

-------------------------------------------------------------------------------
(***************************************************************************)
(* Tool calls: the open blocks of the agent, what the handler has gathered *)
(* under their indexes, and the calls it has streamed.                     *)
(***************************************************************************)
OpenFrom(p) ==
    /\ IsEvent(p, {"toolStart"})
    /\ ~\E r \in p + 1 .. Len(said) : IsEvent(r, {"stop"}) /\ SameBlock(p, r)
BlockInv ==
    \A p \in DOMAIN said : OpenFrom(p) =>
        agent.open[said[p].by] = [index |-> said[p].index, tool |-> said[p].tool]

Gathered(p, n) ==
    handler.calls[said[p].index] = [tool |-> said[p].tool, input |-> InputOf(p, n)]
ShownWhole(p, q) == \E i \in CallsOf(said[p].tool) : Calls[i].input = Shown(InputOf(p, q))
\* A call that is gathered is one the agent has made, under one index, and not yet shown;
\* a call is shown once.
OneOfEach ==
    /\ \A i \in Indexes : handler.calls[i] # None =>
          /\ handler.calls[i].tool \in agent.used
          /\ \A k \in DOMAIN Calls : Calls[k].tool # handler.calls[i].tool
          /\ \A j \in Indexes : handler.calls[j] # None /\ handler.calls[j].tool = handler.calls[i].tool => i = j
    /\ \A k \in DOMAIN Calls :
          /\ Calls[k].tool \in agent.used /\ ShowsTool(Calls[k].tool)
          /\ \A l \in DOMAIN Calls : Calls[l].tool = Calls[k].tool => k = l
GatherInv ==
    turn.streams =>
        \A n \in Nat : n = Len(said) =>
            \A p \in 1 .. n : OpenFrom(p) /\ ~Rivalled(p, n) => Gathered(p, n)
ShownInv ==
    turn.streams =>
        \A p, q \in DOMAIN said :
            IsBlock(p, q) /\ ~Rivalled(p, q) /\ ShowsTool(said[p].tool) => ShownWhole(p, q)
\* The input of a call that is gathered, and of one that was shown, was sent under its
\* index after its start at p.
FedFrom(p, input) ==
    \A k \in DOMAIN input : \E r \in p .. Len(said) :
        IsEvent(r, {"input"}) /\ said[r].index = said[p].index /\ said[r].tool = input[k]
Source(i) ==
    \E p \in DOMAIN said :
        /\ IsEvent(p, {"toolStart"}) /\ said[p].index = i
        /\ said[p].tool = handler.calls[i].tool /\ FedFrom(p, handler.calls[i].input)
SourceInv ==
    turn.streams =>
        /\ \A i \in Indexes : handler.calls[i] # None => Source(i)
        /\ \A k \in DOMAIN Calls : SentFor(Calls[k].tool, Calls[k].input)

(* What was said before stays where it is.                                  *)
Grown(m) ==
    /\ Len(said) \in Nat /\ DOMAIN said = 1 .. Len(said)
    /\ Len(said') = Len(said) + 1 /\ DOMAIN said' = 1 .. Len(said) + 1
    /\ said'[Len(said) + 1] = m
    /\ \A i \in 1 .. Len(said) : said'[i] = said[i] /\ said[i] \in Messages

LEMMA Growing ==
    ASSUME TypeInv, NEW m \in Messages, said' = Append(said, m)
    PROVE  Grown(m)
BY DEF TypeInv, Grown

\* A message in the block that p starts, and one of another author with its index.
InBlockOf(p, m, kinds) ==
    /\ m.type = "stream_event" /\ m.kind \in kinds
    /\ m.by = said[p].by /\ m.index = said[p].index
Rivals(p, m) ==
    /\ m.type = "stream_event" /\ m.kind \in {"toolStart", "input", "stop"}
    /\ m.by # said[p].by /\ m.index = said[p].index

(* A list of one value, repeated.                                           *)
Repeated(t, c) == [k \in 1 .. c |-> t]
LEMMA Repeating ==
    ASSUME NEW t, NEW c \in Nat
    PROVE  /\ Repeated(t, 0) = <<>>
           /\ Repeated(t, c + 1) = Append(Repeated(t, c), t)
           /\ \A S : t \in S => Repeated(t, c) \in Seq(S)
<1>1. Repeated(t, 0) = <<>>
  BY DEF Repeated
<1>2. Repeated(t, c + 1) = Append(Repeated(t, c), t)
  BY DEF Repeated
<1>3. \A S : t \in S => Repeated(t, c) \in Seq(S)
  BY DEF Repeated
<1> QED BY <1>1, <1>2, <1>3

LEMMA PiecesFinite ==
    ASSUME NEW p \in Nat, NEW q \in Nat
    PROVE  /\ IsFiniteSet(PiecesOf(p, q)) /\ Cardinality(PiecesOf(p, q)) \in Nat
           /\ InputOf(p, q) = Repeated(said[p].tool, Cardinality(PiecesOf(p, q)))
<1>1. IsFiniteSet(p .. q)
  BY FS_Interval
<1>2. PiecesOf(p, q) \in SUBSET (p .. q)
  BY DEF PiecesOf
<1>3. IsFiniteSet(PiecesOf(p, q))
  BY <1>1, <1>2, FS_Subset
<1>4. Cardinality(PiecesOf(p, q)) \in Nat
  BY <1>3, FS_CardinalityType
<1>5. InputOf(p, q) = Repeated(said[p].tool, Cardinality(PiecesOf(p, q)))
  BY DEF InputOf, Repeated
<1> QED BY <1>3, <1>4, <1>5

LEMMA BlocksGrow ==
    ASSUME NEW m, Grown(m), NEW n \in Nat, n = Len(said), NEW p \in 1 .. n
    PROVE  /\ OpenFrom(p)' <=> OpenFrom(p) /\ ~InBlockOf(p, m, {"stop"})
           /\ Rivalled(p, n + 1)' <=> Rivalled(p, n) \/ Rivals(p, m)
           /\ InputOf(p, n + 1)' = IF InBlockOf(p, m, {"input"}) THEN Append(InputOf(p, n), said[p].tool)
                                   ELSE InputOf(p, n)
           /\ IsBlock(p, n + 1)' <=> OpenFrom(p) /\ InBlockOf(p, m, {"stop"})
           /\ \A q \in 1 .. n : /\ IsBlock(p, q)' <=> IsBlock(p, q)
                                /\ Rivalled(p, q)' <=> Rivalled(p, q)
                                /\ InputOf(p, q)' = InputOf(p, q)
<1>1. /\ said'[n + 1] = m /\ \A i \in 1 .. n : said'[i] = said[i]
      /\ Len(said') = n + 1 /\ Len(said) = n
  BY DEF Grown
<1>2. /\ \A kinds : \A r \in 1 .. n : IsEvent(r, kinds)' <=> IsEvent(r, kinds)
      /\ \A kinds : IsEvent(n + 1, kinds)' <=> m.type = "stream_event" /\ m.kind \in kinds
  BY <1>1 DEF IsEvent
<1>3. /\ \A r \in 1 .. n : SameBlock(p, r)' <=> SameBlock(p, r)
      /\ SameBlock(p, n + 1)' <=> m.by = said[p].by /\ m.index = said[p].index
  BY <1>1 DEF SameBlock
<1>4. /\ p + 1 .. n + 1 = (p + 1 .. n) \cup {n + 1} /\ p .. n + 1 = (p .. n) \cup {n + 1}
      /\ p + 1 .. n \subseteq 1 .. n /\ p .. n \subseteq 1 .. n /\ p < n + 1
      /\ n + 1 \notin 1 .. n
  OBVIOUS
<1>5. OpenFrom(p)' <=> OpenFrom(p) /\ ~InBlockOf(p, m, {"stop"})
  <2>1. OpenFrom(p)' <=> /\ IsEvent(p, {"toolStart"})'
                         /\ ~\E r \in p + 1 .. n + 1 : IsEvent(r, {"stop"})' /\ SameBlock(p, r)'
    BY <1>1 DEF OpenFrom
  <2>2. OpenFrom(p) <=> /\ IsEvent(p, {"toolStart"})
                        /\ ~\E r \in p + 1 .. n : IsEvent(r, {"stop"}) /\ SameBlock(p, r)
    BY <1>1 DEF OpenFrom
  <2> QED BY <1>2, <1>3, <1>4, <2>1, <2>2 DEF InBlockOf
<1>6. \A q \in 1 .. n + 1 : Rivalled(p, q)' <=>
          \E r \in p .. q : /\ IsEvent(r, {"toolStart", "input", "stop"})'
                            /\ said'[r].by # said'[p].by /\ said'[r].index = said'[p].index
  BY DEF Rivalled
<1>7. \A q \in 1 .. n + 1 : Rivalled(p, q) <=>
          \E r \in p .. q : /\ IsEvent(r, {"toolStart", "input", "stop"})
                            /\ said[r].by # said[p].by /\ said[r].index = said[p].index
  BY DEF Rivalled
<1>8. Rivalled(p, n + 1)' <=> Rivalled(p, n) \/ Rivals(p, m)
  <2>1. n \in 1 .. n + 1 /\ n + 1 \in 1 .. n + 1
    OBVIOUS
  <2> QED BY <1>1, <1>2, <1>4, <1>6, <1>7, <2>1 DEF Rivals
<1>9. InputOf(p, n + 1)' =
          IF InBlockOf(p, m, {"input"}) THEN Append(InputOf(p, n), said[p].tool) ELSE InputOf(p, n)
  <2>1. PICK A : A = PiecesOf(p, n)
    OBVIOUS
  <2>0. /\ IsFiniteSet(PiecesOf(p, n)) /\ Cardinality(PiecesOf(p, n)) \in Nat
        /\ InputOf(p, n) = Repeated(said[p].tool, Cardinality(PiecesOf(p, n)))
    <3>1. p \in Nat
      OBVIOUS
    <3> QED BY <3>1, PiecesFinite
  <2>2. PICK c \in Nat : /\ c = Cardinality(A) /\ IsFiniteSet(A)
                          /\ InputOf(p, n) = Repeated(said[p].tool, c)
    BY <2>0, <2>1
  <2>3. PiecesOf(p, n + 1)' = A \cup (IF InBlockOf(p, m, {"input"}) THEN {n + 1} ELSE {})
    <3>1. PiecesOf(p, n + 1)' = {r \in p .. n + 1 : IsEvent(r, {"input"})' /\ SameBlock(p, r)'}
      BY DEF PiecesOf
    <3>2. A = {r \in p .. n : IsEvent(r, {"input"}) /\ SameBlock(p, r)}
      BY <2>1 DEF PiecesOf
    <3> QED BY <1>2, <1>3, <1>4, <3>1, <3>2 DEF InBlockOf
  <2>4. n + 1 \notin A
    BY <1>4, <2>1 DEF PiecesOf
  <2>5. InputOf(p, n + 1)' = Repeated(said[p].tool, Cardinality(PiecesOf(p, n + 1)'))
    BY <1>1 DEF InputOf, Repeated
  <2>6. CASE InBlockOf(p, m, {"input"})
    <3>1. Cardinality(PiecesOf(p, n + 1)') = c + 1
      BY <2>2, <2>3, <2>4, <2>6, FS_AddElement
    <3> QED BY <2>2, <2>5, <2>6, <3>1, Repeating
  <2>7. CASE ~InBlockOf(p, m, {"input"})
    <3>1. PiecesOf(p, n + 1)' = A
      BY <2>3, <2>7
    <3> QED BY <2>2, <2>5, <2>7, <3>1
  <2> QED BY <2>6, <2>7
<1>10. IsBlock(p, n + 1)' <=> OpenFrom(p) /\ InBlockOf(p, m, {"stop"})
  <2>1. IsBlock(p, n + 1)' <=> /\ IsEvent(p, {"toolStart"})'
                               /\ IsEvent(n + 1, {"stop"})' /\ SameBlock(p, n + 1)'
                               /\ ~\E r \in p + 1 .. n : IsEvent(r, {"stop"})' /\ SameBlock(p, r)'
    BY <1>4 DEF IsBlock
  <2>2. OpenFrom(p) <=> /\ IsEvent(p, {"toolStart"})
                        /\ ~\E r \in p + 1 .. n : IsEvent(r, {"stop"}) /\ SameBlock(p, r)
    BY <1>1 DEF OpenFrom
  <2> QED BY <1>2, <1>3, <1>4, <2>1, <2>2 DEF InBlockOf
<1>11. ASSUME NEW q \in 1 .. n
       PROVE  /\ IsBlock(p, q)' <=> IsBlock(p, q)
              /\ Rivalled(p, q)' <=> Rivalled(p, q)
              /\ InputOf(p, q)' = InputOf(p, q)
  <2>1. p + 1 .. q - 1 \subseteq 1 .. n /\ p .. q \subseteq 1 .. n
    OBVIOUS
  <2>2. IsBlock(p, q)' <=> IsBlock(p, q)
    BY <1>2, <1>3, <2>1 DEF IsBlock
  <2>3. Rivalled(p, q)' <=> Rivalled(p, q)
    BY <1>1, <1>2, <2>1 DEF Rivalled
  <2>4. PiecesOf(p, q)' = PiecesOf(p, q)
    BY <1>2, <1>3, <2>1 DEF PiecesOf
  <2>5. InputOf(p, q)' = InputOf(p, q)
    BY <1>1, <2>4 DEF InputOf
  <2> QED BY <2>2, <2>3, <2>5
<1> QED BY <1>5, <1>8, <1>9, <1>10, <1>11

(* A block that starts with the new message.                                *)
LEMMA BlockStarts ==
    ASSUME NEW m, Grown(m), NEW n \in Nat, n = Len(said)
    PROVE  /\ OpenFrom(n + 1)' <=> m.type = "stream_event" /\ m.kind = "toolStart"
           /\ OpenFrom(n + 1)' => InputOf(n + 1, n + 1)' = <<>>
           /\ \A q \in 1 .. n + 1 : ~IsBlock(n + 1, q)'
<1>1. said'[n + 1] = m /\ Len(said') = n + 1
  BY DEF Grown
<1>2. \A kinds : IsEvent(n + 1, kinds)' <=> m.type = "stream_event" /\ m.kind \in kinds
  BY <1>1 DEF IsEvent
<1>3. (n + 1) + 1 .. n + 1 = {} /\ n + 1 .. n + 1 = {n + 1}
  OBVIOUS
<1>4. OpenFrom(n + 1)' <=> m.type = "stream_event" /\ m.kind = "toolStart"
  BY <1>1, <1>2, <1>3 DEF OpenFrom
<1>5. m.kind = "toolStart" => InputOf(n + 1, n + 1)' = <<>>
  <2> SUFFICES ASSUME m.kind = "toolStart" PROVE InputOf(n + 1, n + 1)' = <<>>
    OBVIOUS
  <2>1. PiecesOf(n + 1, n + 1)' = {r \in {n + 1} : IsEvent(r, {"input"})' /\ SameBlock(n + 1, r)'}
    BY <1>3 DEF PiecesOf
  <2>2. Cardinality(PiecesOf(n + 1, n + 1)') = 0
    BY <1>2, <2>1, FS_EmptySet
  <2>3. InputOf(n + 1, n + 1)' = Repeated(said'[n + 1].tool, 0)
    BY <2>2 DEF InputOf, Repeated
  <2> QED BY <2>3, Repeating
<1>6. \A q \in 1 .. n + 1 : ~IsBlock(n + 1, q)'
  BY DEF IsBlock
<1> QED BY <1>4, <1>5, <1>6

(* What a message does to the open blocks and to the tools used.            *)
IsStart(m) == m.type = "stream_event" /\ m.kind \in {"toolStart", "textStart"}
IsCall(m) == m.type = "stream_event" /\ m.kind = "toolStart"
IsPart(m) == m.type = "stream_event" /\ m.kind = "input"
IsStop(m) == m.type = "stream_event" /\ m.kind = "stop"

LEMMA AgentMoves ==
    ASSUME TypeInv, NEW m \in Messages, Sends(m)
    PROVE  /\ agent.used \subseteq agent'.used
           /\ IsStart(m) => /\ agent.open[m.by] = NoBlock
                            /\ agent'.open = [agent.open EXCEPT ![m.by] = [index |-> m.index, tool |-> m.tool]]
           /\ IsCall(m) => m.tool \notin agent.used /\ m.tool \in agent'.used
           /\ IsPart(m) => m.tool = agent.open[m.by].tool
           /\ IsStop(m) => /\ agent.open[m.by] # NoBlock /\ m.index = agent.open[m.by].index
                           /\ agent'.open = [agent.open EXCEPT ![m.by] = NoBlock]
           /\ ~IsStart(m) /\ ~IsStop(m) => agent'.open = agent.open
<1>1. agent \in AgentSet /\ m.by \in Authors
  BY DEF TypeInv, Messages, Raw
<1>2. CASE Yields(m)
  <2>1. m \in Managed
    BY <1>2, Yielded
  <2>2. m.type # "stream_event"
    BY <2>1 DEF Managed, IsManaged
  <2>3. agent'.used = agent.used /\ agent'.open = agent.open
    BY <1>1, <1>2 DEF Yields, AgentSet
  <2> QED BY <2>2, <2>3 DEF IsStart, IsCall, IsPart, IsStop
<1>3. CASE Opens(m) \/ Repeats(m) \/ Echoes(m) \/ Tells(m) \/ Deltas(m) \/ Concludes(m) \/ Answers(m) \/ Works(m)
  <2>1. ~(m.type = "stream_event" /\ m.kind \in {"toolStart", "textStart", "input", "stop"})
    <3>1. CASE Opens(m) \/ Echoes(m)
      <4>1. m.type # "stream_event"
        <5>1. Made(m, "system", "init") \/ Made(m, "user", "prompt")
          BY <3>1, LocalMade DEF Opens, Echoes
        <5> QED BY <5>1 DEF Made
      <4> QED BY <4>1
    <3>2. CASE Repeats(m) \/ Tells(m) \/ Deltas(m) \/ Concludes(m) \/ Answers(m) \/ Works(m)
      BY <3>2 DEF Repeats, Tells, Deltas, Concludes, Answers, Works, IsReplay, IsTaskCall
    <3> QED BY <1>3, <3>1, <3>2
  <2>2. agent.used \subseteq agent'.used /\ agent'.open = agent.open
    BY <1>1, <1>3 DEF Opens, Repeats, Echoes, Tells, Deltas, Concludes, Answers, Works, Moved, AgentSet
  <2> QED BY <2>1, <2>2 DEF IsStart, IsCall, IsPart, IsStop
<1>4. CASE Starts(m)
  <2>1. IsStart(m) /\ ~IsStop(m) /\ ~IsPart(m) /\ agent.open[m.by] = NoBlock /\ m.tool \notin agent.used
    BY <1>4 DEF Starts, IsStart, IsPart, IsStop
  <2>2. IsCall(m) => m.tool # None
    BY <1>4 DEF Starts, IsCall
  <2>3. PICK u : u = (IF m.tool = None THEN agent.used ELSE agent.used \cup {m.tool})
    OBVIOUS
  <2>4. agent' = [agent EXCEPT !.stage = "open", !.open[m.by] = [index |-> m.index, tool |-> m.tool],
                               !.used = u]
    BY <1>1, <1>4, <2>3 DEF Starts, AgentSet
  <2>5. /\ agent'.used = u
        /\ agent'.open = [agent.open EXCEPT ![m.by] = [index |-> m.index, tool |-> m.tool]]
    BY <1>1, <2>4 DEF AgentSet
  <2> QED BY <2>1, <2>2, <2>3, <2>5
<1>5. CASE Goes(m)
  <2>1. ~IsStart(m) /\ ~IsCall(m)
    BY <1>5 DEF Goes, IsStart, IsCall
  <2>2. agent'.used = agent.used
    BY <1>1, <1>5 DEF Goes, AgentSet
  <2>3. CASE m.kind = "stop"
    <3>1. agent'.open = [agent.open EXCEPT ![m.by] = NoBlock]
      BY <1>1, <1>5, <2>3 DEF Goes, AgentSet
    <3> QED BY <1>5, <2>1, <2>2, <2>3, <3>1 DEF Goes, IsPart, IsStop
  <2>4. CASE m.kind # "stop"
    <3>1. agent'.open = agent.open
      BY <1>1, <1>5, <2>4 DEF Goes, AgentSet
    <3>2. m.tool = agent.open[m.by].tool
      BY <1>5 DEF Goes
    <3> QED BY <2>1, <2>2, <2>4, <3>1, <3>2 DEF IsStop
  <2> QED BY <2>3, <2>4
<1> QED BY <1>2, <1>3, <1>4, <1>5 DEF Sends, Utters

(* What a message does to the gathered calls and to those streamed.         *)
LEMMA CallsAfter ==
    ASSUME TypeInv, turn.streams, NEW m \in Messages, Sends(m)
    PROVE  /\ IsCall(m) => handler'.calls = [handler.calls EXCEPT ![m.index] = [tool |-> m.tool, input |-> <<>>]]
           /\ IsPart(m) /\ CallAt(m) # None =>
                 handler'.calls = [handler.calls EXCEPT ![m.index] =
                    [tool |-> CallAt(m).tool, input |-> Append(CallAt(m).input, m.tool)]]
           /\ IsStop(m) => handler'.calls = [handler.calls EXCEPT ![m.index] = None]
           /\ ~IsCall(m) /\ ~IsStop(m) /\ ~(IsPart(m) /\ CallAt(m) # None) => handler'.calls = handler.calls
           /\ Calls' = IF ShowsCall(m) THEN Append(Calls, Call(CallAt(m))) ELSE Calls
<1>1. handler \in HandlerSet /\ Handle(m)
  BY DEF TypeInv, Sends
<1>2. CASE Hide(m)
  <2>1. m.type # "stream_event"
    BY <1>2 DEF Hide, Hidden, IsReplay
  <2>2. PICK b : handler' = [handler EXCEPT !.inPrefix = b] /\ frames' = frames
    BY <1>2 DEF Hide
  <2>3. handler'.calls = handler.calls
    BY <1>1, <2>2 DEF HandlerSet
  <2>4. Calls' = Calls
    BY <2>2, FramesFound DEF Calls
  <2> QED BY <2>1, <2>3, <2>4 DEF IsCall, IsPart, IsStop, ShowsCall
<1>3. CASE StreamMessage(m)
  <2>1. Calls' = IF ShowsCall(m) THEN Append(Calls, Call(CallAt(m))) ELSE Calls
    BY <1>3, FoundStreamed DEF Calls
  <2>2. Streamed(m) /\ m.by \in Authors
    BY <1>3, StreamFacts DEF Messages, Raw
  <2>3. CASE ShowsText(m)
    <3>1. handler'.calls = handler.calls
      BY <2>2, <2>3, AfterTextTyped DEF Streamed
    <3>2. ~IsCall(m) /\ ~IsPart(m) /\ ~IsStop(m)
      BY <2>3 DEF ShowsText, SpeaksWhole, IsCall, IsPart, IsStop
    <3> QED BY <2>1, <3>1, <3>2
  <2>4. CASE ~ShowsText(m) /\ m.type # "stream_event"
    BY <2>1, <2>2, <2>4 DEF Streamed, IsCall, IsPart, IsStop
  <2>5. CASE ~ShowsText(m) /\ m.type = "stream_event"
    <3>1. handler' = AfterEvent(m) /\ m.kind # "delta" /\ m.index \in Indexes
      BY <2>2, <2>5 DEF Streamed, ShowsText, Messages, WellMade
    <3>2. \A c : [handler EXCEPT !.calls[m.index] = c].calls = [handler.calls EXCEPT ![m.index] = c]
      BY <1>1 DEF HandlerSet
    <3>3. CASE IsCall(m)
      <4>1. handler' = [handler EXCEPT !.calls[m.index] = [tool |-> m.tool, input |-> <<>>]]
        BY <3>1, <3>3 DEF AfterEvent, IsCall
      <4>2. ~IsStop(m) /\ ~IsPart(m)
        BY <3>3 DEF IsCall, IsStop, IsPart
      <4> QED BY <2>1, <3>2, <3>3, <4>1, <4>2
    <3>4. CASE IsPart(m) /\ CallAt(m) # None
      <4>1. CallAt(m) \in CallSet
        BY <1>1, <3>1, <3>4 DEF CallAt, HandlerSet
      <4>2. [CallAt(m) EXCEPT !.input = Append(@, m.tool)] =
                [tool |-> CallAt(m).tool, input |-> Append(CallAt(m).input, m.tool)]
        <5>1. PICK c \in CallSet : c = CallAt(m)
          BY <4>1
        <5>2. \A s : [c EXCEPT !.input = s] = [tool |-> c.tool, input |-> s]
          BY DEF CallSet
        <5> QED BY <5>1, <5>2
      <4>3. handler' = [handler EXCEPT !.calls[m.index] = [CallAt(m) EXCEPT !.input = Append(@, m.tool)]]
        BY <1>1, <3>1, <3>4 DEF AfterEvent, CallAt, HandlerSet, IsPart
      <4>4. ~IsStop(m) /\ ~IsCall(m)
        BY <3>4 DEF IsCall, IsStop, IsPart
      <4> QED BY <2>1, <3>2, <3>4, <4>2, <4>3, <4>4
    <3>5. CASE IsStop(m)
      <4>1. handler' = [handler EXCEPT !.calls[m.index] = None]
        BY <3>1, <3>5 DEF AfterEvent, IsStop
      <4>2. ~IsCall(m) /\ ~IsPart(m)
        BY <3>5 DEF IsCall, IsStop, IsPart
      <4> QED BY <2>1, <3>2, <3>5, <4>1, <4>2
    <3>6. CASE ~IsCall(m) /\ ~IsStop(m) /\ ~(IsPart(m) /\ CallAt(m) # None)
      <4>1. handler' = handler
        BY <2>5, <3>1, <3>6 DEF AfterEvent, IsCall, IsStop, IsPart
      <4> QED BY <2>1, <3>6, <4>1
    <3> QED BY <3>3, <3>4, <3>5, <3>6
  <2> QED BY <2>3, <2>4, <2>5
<1> QED BY <1>1, <1>2, <1>3 DEF Handle, CollectMessage

LEMMA NotNoBlock == \A i \in Indexes : \A t : [index |-> i, tool |-> t] # NoBlock
<1> SUFFICES ASSUME NEW i \in Indexes, NEW t, [index |-> i, tool |-> t] = NoBlock PROVE FALSE
  OBVIOUS
<1>1. [index |-> i, tool |-> t].index = NoBlock.index
  OBVIOUS
<1> QED BY <1>1, NamesAssumption DEF NoBlock

LEMMA BlockSends ==
    ASSUME TypeInv, BlockInv, NEW m \in Messages, Sends(m)
    PROVE  BlockInv'
<1>1. PICK n \in Nat : n = Len(said) /\ DOMAIN said = 1 .. n /\ DOMAIN said' = 1 .. n + 1
  BY Growing DEF Grown, Sends, Handle
<1>2. Grown(m) /\ m.by \in Authors /\ agent.open \in [Authors -> Blocks]
  BY Growing DEF Sends, Handle, Messages, Raw, TypeInv, AgentSet
<1> SUFFICES ASSUME NEW p \in 1 .. n + 1, OpenFrom(p)'
             PROVE  agent'.open[said'[p].by] = [index |-> said'[p].index, tool |-> said'[p].tool]
  BY <1>1 DEF BlockInv
<1>3. CASE p = n + 1
  <2>1. IsCall(m) /\ said'[p] = m
    BY <1>1, <1>2, <1>3, BlockStarts DEF IsCall, Grown
  <2>2. agent'.open = [agent.open EXCEPT ![m.by] = [index |-> m.index, tool |-> m.tool]]
    BY <2>1, AgentMoves DEF IsCall, IsStart
  <2> QED BY <1>2, <2>1, <2>2
<1>4. CASE p \in 1 .. n
  <2>1. OpenFrom(p) /\ ~InBlockOf(p, m, {"stop"}) /\ said'[p] = said[p] /\ said[p] \in Messages
    BY <1>1, <1>2, <1>4, BlocksGrow DEF Grown
  <2>2. agent.open[said[p].by] = [index |-> said[p].index, tool |-> said[p].tool]
    BY <1>1, <1>4, <2>1 DEF BlockInv
  <2>3. said[p].index \in Indexes
    BY <2>1 DEF OpenFrom, IsEvent, Messages, WellMade
  <2>4. agent.open[said[p].by] # NoBlock
    BY <2>2, <2>3, NotNoBlock
  <2>5. IsStart(m) => m.by # said[p].by
    <3>1. IsStart(m) => agent.open[m.by] = NoBlock
      BY AgentMoves
    <3> QED BY <2>4, <3>1
  <2>6. IsStop(m) => m.by # said[p].by
    <3> SUFFICES ASSUME IsStop(m), m.by = said[p].by PROVE FALSE
      OBVIOUS
    <3>1. IsStop(m) => m.index = agent.open[m.by].index
      BY AgentMoves
    <3>2. m.index = said[p].index
      BY <2>2, <3>1
    <3> QED BY <2>1, <3>2 DEF InBlockOf, IsStop
  <2>7. agent'.open[said[p].by] = agent.open[said[p].by]
    <3>1. said[p].by \in Authors
      BY <2>1 DEF Messages, Raw
    <3> QED BY <1>2, <2>5, <2>6, <3>1, AgentMoves
  <2> QED BY <2>1, <2>2, <2>7
<1> QED BY <1>3, <1>4

LEMMA BlockInit == Init => BlockInv
BY DEF Init, BlockInv

LEMMA BlockStep == TypeInv /\ BlockInv /\ [Next]_vars => BlockInv'
<1> SUFFICES ASSUME TypeInv, BlockInv, [Next]_vars PROVE BlockInv'
  OBVIOUS
<1>1. ASSUME NEW m \in Messages, Sends(m) PROVE BlockInv'
  BY <1>1, BlockSends
<1>2. CASE RetryQuery
  BY <1>2 DEF RetryQuery, BlockInv
<1>3. CASE ManagedEvent \/ Closes \/ UNCHANGED vars
  <2>1. said' = said /\ agent'.open = agent.open
    <3>1. CASE ManagedEvent
      BY <3>1 DEF ManagedEvent, TypeInv, AgentSet
    <3>2. CASE Closes \/ UNCHANGED vars
      BY <3>2 DEF Closes, EndQuery, AbortQuery, FailQuery, EmptyQuery, vars
    <3> QED BY <1>3, <3>1, <3>2
  <2> QED BY <2>1 DEF BlockInv, OpenFrom, IsEvent, SameBlock
<1> QED BY <1>1, <1>2, <1>3, Steps

(* The input of a block is of the tools.                                    *)
LEMMA InputTyped ==
    ASSUME NEW p \in Nat, NEW q \in Nat, said[p].tool \in Tools
    PROVE  InputOf(p, q) \in Seq(Tools)
<1>1. PICK c \in Nat : InputOf(p, q) = Repeated(said[p].tool, c)
  BY PiecesFinite
<1>2. \A S : said[p].tool \in S => Repeated(said[p].tool, c) \in Seq(S)
  BY Repeating
<1> QED BY <1>1, <1>2

(* A call that is gathered is a record.                                     *)
LEMMA CallMade ==
    ASSUME NEW t \in Tools, NEW input \in Seq(Tools)
    PROVE  /\ [tool |-> t, input |-> input] \in CallSet /\ [tool |-> t, input |-> input] # None
           /\ [tool |-> t, input |-> input].tool = t /\ [tool |-> t, input |-> input].input = input
<1>1. [tool |-> t, input |-> input] \in CallSet
  BY DEF CallSet
<1> QED BY <1>1, NamesAssumption DEF CallSet

LEMMA GatherSends ==
    ASSUME TypeInv, BlockInv, GatherInv, NEW m \in Messages, Sends(m)
    PROVE  GatherInv'
<1>1. PICK n \in Nat : /\ n = Len(said) /\ DOMAIN said = 1 .. n
                       /\ DOMAIN said' = 1 .. n + 1 /\ Len(said') = n + 1
  BY Growing DEF Grown, Sends, Handle
<1>2. Grown(m) /\ turn' = turn /\ handler.calls \in [Indexes -> CallSet \cup {None}]
  BY Growing DEF Sends, Handle, TypeInv, HandlerSet
<1> SUFFICES ASSUME turn.streams, NEW p \in 1 .. n + 1, OpenFrom(p)', ~Rivalled(p, n + 1)'
             PROVE  Gathered(p, n + 1)'
  BY <1>1, <1>2 DEF GatherInv
<1> SUFFICES handler'.calls[said'[p].index] = [tool |-> said'[p].tool, input |-> InputOf(p, n + 1)']
  BY DEF Gathered
<1>3. CASE p = n + 1
  <2>1. IsCall(m) /\ said'[p] = m /\ InputOf(p, n + 1)' = <<>>
    BY <1>1, <1>2, <1>3, BlockStarts DEF IsCall, Grown
  <2>2. handler'.calls = [handler.calls EXCEPT ![m.index] = [tool |-> m.tool, input |-> <<>>]]
    BY <2>1, CallsAfter
  <2>3. m.index \in Indexes
    BY <2>1 DEF IsCall, Messages, WellMade
  <2> QED BY <1>2, <2>1, <2>2, <2>3
<1>4. CASE p \in 1 .. n
  <2>1. /\ OpenFrom(p) /\ ~InBlockOf(p, m, {"stop"}) /\ said'[p] = said[p] /\ said[p] \in Messages
        /\ ~Rivalled(p, n) /\ ~Rivals(p, m)
        /\ InputOf(p, n + 1)' = IF InBlockOf(p, m, {"input"}) THEN Append(InputOf(p, n), said[p].tool) ELSE InputOf(p, n)
    BY <1>1, <1>2, <1>4, BlocksGrow DEF Grown
  <2>2. handler.calls[said[p].index] = [tool |-> said[p].tool, input |-> InputOf(p, n)]
    BY <1>1, <1>4, <2>1 DEF GatherInv, Gathered
  <2>3. said[p].index \in Indexes /\ said[p].tool \in Tools
    BY <2>1 DEF OpenFrom, IsEvent, Messages, WellMade
  <2>4. /\ handler.calls[said[p].index] # None
        /\ handler.calls[said[p].index].tool = said[p].tool
        /\ handler.calls[said[p].index].input = InputOf(p, n)
    <3>1. InputOf(p, n) \in Seq(Tools)
      BY <1>4, <2>3, InputTyped
    <3> QED BY <2>2, <2>3, <3>1, CallMade
  <2>5. IsCall(m) => m.index # said[p].index
    <3>1. IsCall(m) => agent.open[m.by] = NoBlock
      BY AgentMoves DEF IsCall, IsStart
    <3>2. agent.open[said[p].by] # NoBlock
      <4>1. agent.open[said[p].by] = [index |-> said[p].index, tool |-> said[p].tool]
        BY <1>1, <1>4, <2>1 DEF BlockInv
      <4> QED BY <2>3, <4>1, NotNoBlock
    <3> QED BY <2>1, <3>1, <3>2 DEF Rivals, IsCall
  <2>6. IsStop(m) => m.index # said[p].index
    BY <2>1 DEF Rivals, InBlockOf, IsStop
  <2>7. CASE IsPart(m) /\ m.index = said[p].index
    <3>1. CallAt(m) = handler.calls[said[p].index] /\ CallAt(m) # None
      BY <2>4, <2>7 DEF CallAt
    <3>2. handler'.calls = [handler.calls EXCEPT ![m.index] =
                               [tool |-> CallAt(m).tool, input |-> Append(CallAt(m).input, m.tool)]]
      BY <2>7, <3>1, CallsAfter
    <3>3. InBlockOf(p, m, {"input"})
      BY <2>1, <2>7 DEF Rivals, InBlockOf, IsPart
    <3>4. m.tool = said[p].tool
      <4>1. agent.open[said[p].by] = [index |-> said[p].index, tool |-> said[p].tool]
        BY <1>1, <1>4, <2>1 DEF BlockInv
      <4>2. m.tool = agent.open[m.by].tool
        BY <2>7, AgentMoves
      <4> QED BY <3>3, <4>1, <4>2 DEF InBlockOf
    <3>5. handler'.calls[said[p].index] = [tool |-> said[p].tool, input |-> Append(InputOf(p, n), said[p].tool)]
      <4>1. [tool |-> CallAt(m).tool, input |-> Append(CallAt(m).input, m.tool)]
                = [tool |-> said[p].tool, input |-> Append(InputOf(p, n), said[p].tool)]
        BY <2>4, <3>1, <3>4
      <4> QED BY <1>2, <2>3, <2>7, <3>2, <4>1
    <3>6. InputOf(p, n + 1)' = Append(InputOf(p, n), said[p].tool) /\ said'[p] = said[p]
      BY <2>1, <3>3
    <3> QED BY <3>5, <3>6
  <2>8. CASE ~(IsPart(m) /\ m.index = said[p].index)
    <3>1. handler'.calls[said[p].index] = handler.calls[said[p].index]
      <4>1. CASE IsCall(m)
        <5>1. handler'.calls = [handler.calls EXCEPT ![m.index] = [tool |-> m.tool, input |-> <<>>]]
          BY <4>1, CallsAfter
        <5> QED BY <1>2, <2>3, <2>5, <4>1, <5>1
      <4>2. CASE IsStop(m)
        <5>1. handler'.calls = [handler.calls EXCEPT ![m.index] = None]
          BY <4>2, CallsAfter
        <5> QED BY <1>2, <2>3, <2>6, <4>2, <5>1
      <4>3. CASE IsPart(m) /\ CallAt(m) # None
        <5>1. handler'.calls = [handler.calls EXCEPT ![m.index] =
                                  [tool |-> CallAt(m).tool, input |-> Append(CallAt(m).input, m.tool)]]
          BY <4>3, CallsAfter
        <5> QED BY <1>2, <2>3, <2>8, <4>3, <5>1
      <4>4. CASE ~IsCall(m) /\ ~IsStop(m) /\ ~(IsPart(m) /\ CallAt(m) # None)
        <5>1. handler'.calls = handler.calls
          BY <4>4, CallsAfter
        <5> QED BY <5>1
      <4> QED BY <4>1, <4>2, <4>3, <4>4
    <3>2. ~InBlockOf(p, m, {"input"})
      BY <2>8 DEF InBlockOf, IsPart
    <3> QED BY <2>1, <2>2, <3>1, <3>2
  <2> QED BY <2>7, <2>8
<1> QED BY <1>3, <1>4

LEMMA GatherStep == TypeInv /\ BlockInv /\ GatherInv /\ [Next]_vars => GatherInv'
<1> SUFFICES ASSUME TypeInv, BlockInv, GatherInv, [Next]_vars PROVE GatherInv'
  OBVIOUS
<1>1. ASSUME NEW m \in Messages, Sends(m) PROVE GatherInv'
  BY <1>1, GatherSends
<1>2. CASE RetryQuery
  <2>1. said' = <<>>
    BY <1>2 DEF RetryQuery
  <2>2. Len(said') = 0 /\ \A p \in 1 .. 0 : FALSE
    BY <2>1
  <2> QED BY <2>2 DEF GatherInv
<1>3. CASE ManagedEvent \/ Closes \/ UNCHANGED vars
  <2>1. UNCHANGED <<turn, handler, said>>
    BY <1>3 DEF ManagedEvent, Closes, EndQuery, AbortQuery, FailQuery, EmptyQuery, vars
  <2> QED BY <2>1 DEF GatherInv, Gathered, OpenFrom, IsEvent, SameBlock, Rivalled, InputOf,
                     PiecesOf
<1> QED BY <1>1, <1>2, <1>3, Steps

OneInv == turn.streams => OneOfEach

LEMMA OneSends ==
    ASSUME TypeInv, OneOfEach, turn.streams, NEW m \in Messages, Sends(m)
    PROVE  OneOfEach'
<1>1. /\ handler.calls \in [Indexes -> CallSet \cup {None}] /\ agent.used \subseteq agent'.used
      /\ Calls \in Seq(FrameSet) /\ m.by \in Authors
  <2>1. agent.used \subseteq agent'.used
    BY AgentMoves
  <2>2. Calls \in Seq(FrameSet)
    BY FramesFound, FindingFrames DEF TypeInv, Calls
  <2> QED BY <2>1, <2>2 DEF TypeInv, HandlerSet, Messages, Raw
<1>2. /\ \A i \in Indexes : handler.calls[i] # None =>
            /\ handler.calls[i].tool \in agent.used
            /\ \A k \in DOMAIN Calls : Calls[k].tool # handler.calls[i].tool
            /\ \A j \in Indexes : handler.calls[j] # None /\ handler.calls[j].tool = handler.calls[i].tool => i = j
      /\ \A k \in DOMAIN Calls :
            /\ Calls[k].tool \in agent.used /\ ShowsTool(Calls[k].tool)
            /\ \A l \in DOMAIN Calls : Calls[l].tool = Calls[k].tool => k = l
      /\ turn' = turn /\ \A t : ShowsTool(t)' <=> ShowsTool(t)
  BY DEF OneOfEach, Sends, ShowsTool, Streams
<1>3. m.type = "stream_event" /\ m.kind # "delta" => m.index \in Indexes
  BY DEF Messages, WellMade
<1>4. CASE IsCall(m)
  <2>1. m.index \in Indexes /\ m.tool \in Tools
    BY <1>4 DEF IsCall, Messages, WellMade
  <2>2. PICK c \in CallSet : c = [tool |-> m.tool, input |-> <<>>] /\ c.tool = m.tool /\ c # None
    <3>1. <<>> \in Seq(Tools)
      OBVIOUS
    <3> QED BY <2>1, <3>1, CallMade
  <2>3. handler'.calls = [handler.calls EXCEPT ![m.index] = c] /\ Calls' = Calls
    BY <1>4, <2>2, CallsAfter DEF ShowsCall, IsCall
  <2>4. m.tool \notin agent.used /\ m.tool \in agent'.used
    BY <1>4, AgentMoves
  <2>5. \A i \in Indexes : handler'.calls[i] = IF i = m.index THEN c ELSE handler.calls[i]
    BY <1>1, <2>3
  <2> QED BY <1>1, <1>2, <2>2, <2>3, <2>4, <2>5 DEF OneOfEach
<1>5. CASE IsStop(m)
  <2>1. m.index \in Indexes
    BY <1>3, <1>5 DEF IsStop
  <2>2. \A i \in Indexes : handler'.calls[i] = IF i = m.index THEN None ELSE handler.calls[i]
    <3>1. handler'.calls = [handler.calls EXCEPT ![m.index] = None]
      BY <1>5, CallsAfter
    <3> QED BY <1>1, <3>1
  <2>3. CASE ~ShowsCall(m)
    <3>1. Calls' = Calls
      BY <2>3, CallsAfter
    <3> QED BY <1>1, <1>2, <2>2, <3>1 DEF OneOfEach
  <2>4. CASE ShowsCall(m)
    <3>1. CallAt(m) \in CallSet /\ CallAt(m) # None /\ CallAt(m) = handler.calls[m.index]
      BY <1>1, <2>1, <2>4 DEF ShowsCall, CallAt
    <3>2. PICK f \in FrameSet : f = Call(CallAt(m)) /\ f.tool = handler.calls[m.index].tool
                                /\ ShowsTool(f.tool)
      BY <2>4, <3>1, CallFacts DEF ShowsCall
    <3>3. Calls' = Append(Calls, f)
      BY <2>4, <3>2, CallsAfter
    <3>4. \E last : \A k \in DOMAIN Calls' :
              (k = last /\ Calls'[k] = f) \/ (k \in DOMAIN Calls /\ Calls'[k] = Calls[k])
      <4>1. /\ DOMAIN Append(Calls, f) = DOMAIN Calls \cup {Len(Calls) + 1}
            /\ Append(Calls, f)[Len(Calls) + 1] = f
            /\ \A i \in DOMAIN Calls : Append(Calls, f)[i] = Calls[i]
        BY <1>1
      <4>2. \A k \in DOMAIN Calls' :
              (k = Len(Calls) + 1 /\ Calls'[k] = f) \/ (k \in DOMAIN Calls /\ Calls'[k] = Calls[k])
        BY <3>3, <4>1
      <4> QED BY <4>2
    <3>5. \A k \in DOMAIN Calls : Calls[k].tool # f.tool
      BY <1>2, <2>1, <3>1, <3>2
    <3>6. \A k \in DOMAIN Calls' :
              /\ Calls'[k].tool \in agent'.used /\ ShowsTool(Calls'[k].tool)
              /\ \A l \in DOMAIN Calls' : Calls'[l].tool = Calls'[k].tool => k = l
      BY <1>1, <1>2, <2>1, <3>1, <3>2, <3>4, <3>5
    <3>7. \A i \in Indexes : handler'.calls[i] # None =>
              /\ handler'.calls[i] = handler.calls[i] /\ i # m.index /\ handler.calls[i] # None
              /\ \A k \in DOMAIN Calls' : Calls'[k].tool # handler.calls[i].tool
      BY <1>2, <2>1, <2>2, <3>1, <3>2, <3>4
    <3>8. (\A k \in DOMAIN Calls :
              /\ Calls[k].tool \in agent.used /\ ShowsTool(Calls[k].tool)
              /\ \A l \in DOMAIN Calls : Calls[l].tool = Calls[k].tool => k = l)'
      BY <1>2, <3>6 DEF ShowsTool, Streams
    <3> QED BY <1>1, <1>2, <3>7, <3>8 DEF OneOfEach
  <2> QED BY <2>3, <2>4
<1>6. CASE IsPart(m) /\ CallAt(m) # None
  <2>1. m.index \in Indexes /\ m.tool \in Tools
    BY <1>6 DEF IsPart, Messages, WellMade
  <2>2. CallAt(m) \in CallSet /\ CallAt(m) = handler.calls[m.index]
    BY <1>1, <1>6, <2>1 DEF CallAt
  <2>3. PICK c \in CallSet : /\ c = [tool |-> CallAt(m).tool, input |-> Append(CallAt(m).input, m.tool)]
                             /\ c.tool = handler.calls[m.index].tool /\ c # None
    <3>1. CallAt(m).tool \in Tools /\ Append(CallAt(m).input, m.tool) \in Seq(Tools)
      BY <2>1, <2>2 DEF CallSet
    <3>2. PICK t \in Tools, s \in Seq(Tools) : t = CallAt(m).tool /\ s = Append(CallAt(m).input, m.tool)
      BY <3>1
    <3>3. [tool |-> t, input |-> s] \in CallSet /\ [tool |-> t, input |-> s] # None
          /\ [tool |-> t, input |-> s].tool = t
      BY CallMade
    <3> QED BY <2>2, <3>2, <3>3
  <2>4. handler'.calls = [handler.calls EXCEPT ![m.index] = c]
    BY <1>6, <2>3, CallsAfter
  <2>5. Calls' = Calls
    BY <1>6, CallsAfter DEF ShowsCall, IsPart
  <2>6. \A i \in Indexes : handler'.calls[i] = IF i = m.index THEN c ELSE handler.calls[i]
    BY <1>1, <2>4
  <2>7. \A i \in Indexes : /\ handler'.calls[i] # None <=> handler.calls[i] # None
                           /\ handler'.calls[i].tool = handler.calls[i].tool
    BY <1>6, <2>2, <2>3, <2>6
  <2> QED BY <1>1, <1>2, <2>5, <2>7 DEF OneOfEach
<1>7. CASE ~IsCall(m) /\ ~IsStop(m) /\ ~(IsPart(m) /\ CallAt(m) # None)
  <2>1. handler'.calls = handler.calls /\ Calls' = Calls
    BY <1>7, CallsAfter DEF ShowsCall, IsStop
  <2> QED BY <1>1, <1>2, <2>1 DEF OneOfEach
<1> QED BY <1>4, <1>5, <1>6, <1>7

(* The calls of a query that begins, and of one that ends.                  *)
LEMMA CallsBegun ==
    ASSUME NEW s \in Seq(FrameSet)
    PROVE  /\ frames = Append(s, Frame("begin")) => Calls = <<>>
           /\ frames' = Append(s, Frame("begin")) => Calls' = <<>>
BY FramesFound, FoundBegun DEF Calls

LEMMA OneInit == Init => OneInv
<1> SUFFICES ASSUME Init, turn.streams PROVE OneOfEach
  BY DEF OneInv
<1>1. frames = Append(<<>>, Frame("begin")) /\ \A i \in Indexes : handler.calls[i] = None
  BY DEF Init, Begin, NewHandler
<1>2. Calls = <<>>
  <2>1. <<>> \in Seq(FrameSet)
    OBVIOUS
  <2> QED BY <1>1, <2>1, CallsBegun
<1> QED BY <1>1, <1>2 DEF OneOfEach

LEMMA OneStep == TypeInv /\ OneInv /\ [Next]_vars => OneInv'
<1> SUFFICES ASSUME TypeInv, OneInv, [Next]_vars, turn.streams PROVE OneOfEach'
  BY TurnFixed DEF OneInv
<1>0. OneOfEach
  BY DEF OneInv
<1>1. ASSUME NEW m \in Messages, Sends(m) PROVE OneOfEach'
  BY <1>0, <1>1, OneSends
<1>2. CASE RetryQuery
  <2>1. frames \in Seq(FrameSet)
    BY DEF TypeInv
  <2>2. frames' = Append(frames, Frame("begin")) /\ \A i \in Indexes : handler'.calls[i] = None
    BY <1>2, <2>1, BeginTyped DEF RetryQuery, NewHandler
  <2>3. Calls' = <<>>
    BY <2>1, <2>2, CallsBegun
  <2> QED BY <2>2, <2>3 DEF OneOfEach
<1>3. CASE ManagedEvent \/ Closes \/ UNCHANGED vars
  <2>1. handler' = handler
    BY <1>3 DEF ManagedEvent, Closes, EndQuery, AbortQuery, FailQuery, EmptyQuery, vars
  <2>2. agent.used \subseteq agent'.used
    <3>1. CASE ManagedEvent
      <4>1. agent \in AgentSet
        BY DEF TypeInv
      <4>2. PICK e \in SessionEvents : \E files, stage, yields : agent' = [agent EXCEPT
                !.yields = yields, !.stage = stage,
                !.used = IF e.tool = None THEN agent.used ELSE agent.used \cup {e.tool},
                !.blocking = e.ids]
        BY <3>1, <4>1 DEF ManagedEvent
      <4> QED BY <4>1, <4>2 DEF AgentSet
    <3>2. CASE Closes \/ UNCHANGED vars
      BY <3>2 DEF Closes, EndQuery, AbortQuery, FailQuery, EmptyQuery, vars
    <3> QED BY <1>3, <3>1, <3>2
  <2>3. Calls' = Calls
    <3>1. CASE Closes
      BY <3>1, FoundClosed DEF Calls
    <3>2. CASE ManagedEvent \/ UNCHANGED vars
      <4>1. frames' = frames
        BY <3>2 DEF ManagedEvent, vars
      <4> QED BY <4>1, FramesFound DEF Calls
    <3> QED BY <1>3, <3>1, <3>2
  <2>4. turn' = turn
    BY TurnFixed
  <2> QED BY <1>0, <2>1, <2>2, <2>3, <2>4 DEF OneOfEach, ShowsTool, Streams
<1> QED BY <1>1, <1>2, <1>3, Steps

(* A call that was shown stays where it is.                                 *)
LEMMA CallStays ==
    ASSUME TypeInv, turn.streams, NEW m \in Messages, Sends(m)
    PROVE  /\ Calls \in Seq(FrameSet)
           /\ \A i \in DOMAIN Calls : i \in DOMAIN Calls' /\ Calls'[i] = Calls[i]
           /\ \A i \in DOMAIN Calls' : i \in DOMAIN Calls \/ (ShowsCall(m) /\ Calls'[i] = Call(CallAt(m)))
           /\ ShowsCall(m) => \E i \in DOMAIN Calls' : Calls'[i] = Call(CallAt(m))
<1>1. Calls \in Seq(FrameSet)
  BY FramesFound, FindingFrames DEF TypeInv, Calls
<1>2. ASSUME NEW f
      PROVE  /\ DOMAIN Append(Calls, f) = DOMAIN Calls \cup {Len(Calls) + 1}
             /\ Append(Calls, f)[Len(Calls) + 1] = f
             /\ \A i \in DOMAIN Calls : Append(Calls, f)[i] = Calls[i]
  BY <1>1
<1>3. Calls' = IF ShowsCall(m) THEN Append(Calls, Call(CallAt(m))) ELSE Calls
  BY CallsAfter
<1> QED BY <1>1, <1>2, <1>3

LEMMA ShownSends ==
    ASSUME TypeInv, GatherInv, ShownInv, turn.streams, NEW m \in Messages, Sends(m)
    PROVE  ShownInv'
<1>1. PICK n \in Nat : /\ n = Len(said) /\ DOMAIN said = 1 .. n
                       /\ DOMAIN said' = 1 .. n + 1 /\ Len(said') = n + 1
  BY Growing DEF Grown, Sends, Handle
<1>2. /\ Grown(m) /\ handler.calls \in [Indexes -> CallSet \cup {None}] /\ turn' = turn
  BY Growing DEF Sends, Handle, TypeInv, HandlerSet
<1>3. /\ \A t : ShowsTool(t)' <=> ShowsTool(t)
      /\ \A input : Shown(input)' = Shown(input)
  BY <1>2 DEF ShowsTool, Streams, Shown
<1> SUFFICES ASSUME NEW p \in 1 .. n + 1, NEW q \in 1 .. n + 1, IsBlock(p, q)', ~Rivalled(p, q)',
                    ShowsTool(said'[p].tool)
             PROVE  ShownWhole(p, q)'
  BY <1>1, <1>3 DEF ShownInv
<1>4. p \in 1 .. n /\ said'[p] = said[p] /\ said[p] \in Messages
  <2>1. p # n + 1
    BY <1>1, <1>2, BlockStarts
  <2>2. p \in 1 .. n
    BY <2>1
  <2> QED BY <1>1, <1>2, <2>2 DEF Grown
<1> SUFFICES \E i \in DOMAIN Calls' : Calls'[i].tool = said[p].tool /\ Calls'[i].input = Shown(InputOf(p, q)')
  BY <1>3, <1>4 DEF ShownWhole, CallsOf
<1>5. CASE q \in 1 .. n
  <2>1. IsBlock(p, q) /\ ~Rivalled(p, q) /\ InputOf(p, q)' = InputOf(p, q)
    BY <1>1, <1>2, <1>4, <1>5, BlocksGrow
  <2>2. PICK i \in DOMAIN Calls : Calls[i].tool = said[p].tool /\ Calls[i].input = Shown(InputOf(p, q))
    BY <1>1, <1>4, <1>5, <2>1 DEF ShownInv, ShownWhole, CallsOf
  <2> QED BY <2>1, <2>2, CallStays
<1>6. CASE q = n + 1
  <2>1. OpenFrom(p) /\ InBlockOf(p, m, {"stop"}) /\ ~Rivalled(p, n)
    BY <1>1, <1>2, <1>4, <1>6, BlocksGrow
  <2>2. InputOf(p, n + 1)' = InputOf(p, n)
    <3>1. ~InBlockOf(p, m, {"input"})
      BY <2>1 DEF InBlockOf
    <3> QED BY <1>1, <1>2, <1>4, <3>1, BlocksGrow
  <2>3. handler.calls[said[p].index] = [tool |-> said[p].tool, input |-> InputOf(p, n)]
    BY <1>1, <1>4, <2>1 DEF GatherInv, Gathered
  <2>4. /\ CallAt(m) \in CallSet /\ CallAt(m) # None
        /\ CallAt(m).tool = said[p].tool /\ CallAt(m).input = InputOf(p, n)
    <3>1. said[p].tool \in Tools
      BY <1>4, <2>1 DEF OpenFrom, IsEvent, Messages, WellMade
    <3>2. InputOf(p, n) \in Seq(Tools)
      BY <1>4, <3>1, InputTyped
    <3>3. CallAt(m) = [tool |-> said[p].tool, input |-> InputOf(p, n)]
      BY <2>1, <2>3 DEF CallAt, InBlockOf
    <3> QED BY <3>1, <3>2, <3>3, CallMade
  <2>5. ShowsCall(m)
    BY <1>4, <2>1, <2>4 DEF ShowsCall, InBlockOf
  <2>6. Call(CallAt(m)).tool = said[p].tool /\ Call(CallAt(m)).input = Shown(InputOf(p, n))
    BY <2>4, CallFacts
  <2> QED BY <1>6, <2>2, <2>5, <2>6, CallStays
<1> QED BY <1>5, <1>6

(* The calls that are shown do not change unless something is sent.         *)
LEMMA CallsKept ==
    ASSUME TypeInv, ManagedEvent \/ Closes \/ UNCHANGED vars
    PROVE  Calls' = Calls /\ UNCHANGED <<turn, handler, said>>
<1>1. UNCHANGED <<turn, handler, said>>
  BY DEF ManagedEvent, Closes, EndQuery, AbortQuery, FailQuery, EmptyQuery, vars
<1>2. CASE Closes
  BY <1>1, <1>2, FoundClosed DEF Calls
<1>3. CASE ManagedEvent \/ UNCHANGED vars
  <2>1. frames' = frames
    BY <1>3 DEF ManagedEvent, vars
  <2> QED BY <1>1, <2>1, FramesFound DEF Calls
<1> QED BY <1>2, <1>3

LEMMA ShownStep ==
    TypeInv /\ GatherInv /\ ShownInv /\ [Next]_vars => ShownInv'
<1> SUFFICES ASSUME TypeInv, GatherInv, ShownInv, [Next]_vars, turn'.streams
             PROVE  ShownInv'
  BY DEF ShownInv
<1>0. turn.streams
  BY TurnFixed
<1>1. ASSUME NEW m \in Messages, Sends(m) PROVE ShownInv'
  BY <1>0, <1>1, ShownSends
<1>2. CASE RetryQuery
  BY <1>2 DEF RetryQuery, ShownInv
<1>3. CASE ManagedEvent \/ Closes \/ UNCHANGED vars
  <2>1. Calls' = Calls /\ UNCHANGED <<turn, handler, said>>
    BY <1>3, CallsKept
  <2>2. \A p, q : /\ IsBlock(p, q)' <=> IsBlock(p, q)
                  /\ Rivalled(p, q)' <=> Rivalled(p, q)
    BY <2>1 DEF IsBlock, Rivalled, IsEvent, SameBlock
  <2>3. \A p, q : InputOf(p, q)' = InputOf(p, q)
    <3>1. \A p, q : PiecesOf(p, q)' = PiecesOf(p, q)
      BY <2>1 DEF PiecesOf, IsEvent, SameBlock
    <3> QED BY <2>1, <3>1 DEF InputOf
  <2>4. /\ \A t : ShowsTool(t)' <=> ShowsTool(t)
        /\ \A input : Shown(input)' = Shown(input)
    BY <2>1 DEF ShowsTool, Streams, Shown
  <2>5. \A p, q : ShownWhole(p, q)' <=> ShownWhole(p, q)
    BY <2>1, <2>3, <2>4 DEF ShownWhole, CallsOf
  <2> QED BY <2>1, <2>2, <2>4, <2>5 DEF ShownInv
<1> QED BY <1>1, <1>2, <1>3, Steps

(***************************************************************************)
(* Where the input of a call was sent.                                     *)
(***************************************************************************)
LEMMA SourcesStay ==
    ASSUME NEW m, Grown(m), NEW input
    PROVE  /\ \A p \in DOMAIN said : FedFrom(p, input) => FedFrom(p, input)'
           /\ \A t : SentFor(t, input) => SentFor(t, input)'
<1>1. PICK n \in Nat : n = Len(said) /\ DOMAIN said = 1 .. n /\ DOMAIN said' = 1 .. n + 1 /\ Len(said') = n + 1
  BY DEF Grown
<1>2. \A i \in 1 .. n : said'[i] = said[i]
  BY <1>1 DEF Grown
<1>3. \A kinds : \A i \in 1 .. n : IsEvent(i, kinds)' <=> IsEvent(i, kinds)
  BY <1>2 DEF IsEvent
<1>4. ASSUME NEW p \in 1 .. n, FedFrom(p, input) PROVE FedFrom(p, input)'
  <2> SUFFICES ASSUME NEW k \in DOMAIN input
               PROVE  \E r \in p .. n + 1 : /\ IsEvent(r, {"input"})'
                                            /\ said'[r].index = said'[p].index /\ said'[r].tool = input[k]
    BY <1>1 DEF FedFrom
  <2>1. PICK r \in p .. n : IsEvent(r, {"input"}) /\ said[r].index = said[p].index /\ said[r].tool = input[k]
    BY <1>1, <1>4 DEF FedFrom
  <2>2. r \in 1 .. n /\ r \in p .. n + 1
    OBVIOUS
  <2> QED BY <1>2, <1>3, <2>1, <2>2
<1>5. ASSUME NEW t, SentFor(t, input) PROVE SentFor(t, input)'
  <2>1. PICK p \in 1 .. n : IsEvent(p, {"toolStart"}) /\ said[p].tool = t /\ FedFrom(p, input)
    BY <1>1, <1>5 DEF SentFor, FedFrom
  <2>2. FedFrom(p, input)' /\ p \in 1 .. n + 1
    BY <1>4, <2>1
  <2> QED BY <1>1, <1>2, <1>3, <2>1, <2>2 DEF SentFor, FedFrom
<1> QED BY <1>1, <1>4, <1>5

(* What is shown of an input is of it.                                      *)
LEMMA ShownPart ==
    ASSUME TypeInv, NEW input \in Seq(Tools), NEW k \in DOMAIN Shown(input)
    PROVE  \E j \in DOMAIN input : Shown(input)[k] = input[j]
<1>1. turn.limit \in Nat
  BY DEF TypeInv, TurnKinds
<1>2. ASSUME turn.limit < Len(input)
      PROVE  \A j \in DOMAIN SubSeq(input, 1, turn.limit) :
                j \in DOMAIN input /\ SubSeq(input, 1, turn.limit)[j] = input[j]
  BY <1>1, <1>2
<1>3. DOMAIN <<>> = {}
  OBVIOUS
<1>4. CASE Shown(input) = <<>>
  BY <1>3, <1>4
<1>5. CASE Shown(input) = input
  BY <1>5
<1>6. CASE turn.limit < Len(input) /\ Shown(input) = SubSeq(input, 1, turn.limit)
  BY <1>2, <1>6
<1>7. turn.limit < Len(input) <=> Len(input) > turn.limit
  BY <1>1
<1> QED BY <1>4, <1>5, <1>6, <1>7 DEF Shown

LEMMA SourceSends ==
    ASSUME TypeInv, SourceInv, turn.streams, NEW m \in Messages, Sends(m)
    PROVE  SourceInv'
<1>1. PICK n \in Nat : /\ n = Len(said) /\ DOMAIN said = 1 .. n
                       /\ DOMAIN said' = 1 .. n + 1 /\ Len(said') = n + 1
                       /\ said'[n + 1] = m /\ \A i \in 1 .. n : said'[i] = said[i]
  BY Growing DEF Grown, Sends, Handle
<1>2. Grown(m) /\ handler.calls \in [Indexes -> CallSet \cup {None}]
  BY Growing DEF Sends, Handle, TypeInv, HandlerSet
<1>3. /\ \A i \in Indexes : handler.calls[i] # None => Source(i)
      /\ \A k \in DOMAIN Calls : SentFor(Calls[k].tool, Calls[k].input)
  BY DEF SourceInv
<1>4. /\ \A kinds : \A i \in 1 .. n : IsEvent(i, kinds)' <=> IsEvent(i, kinds)
      /\ \A kinds : IsEvent(n + 1, kinds)' <=> m.type = "stream_event" /\ m.kind \in kinds
  BY <1>1 DEF IsEvent
<1>9. ASSUME NEW i \in Indexes, NEW p \in 1 .. n + 1, NEW input,
             IsEvent(p, {"toolStart"})', said'[p].index = i, said'[p].tool = handler'.calls[i].tool,
             input = handler'.calls[i].input, FedFrom(p, input)'
      PROVE  Source(i)'
  BY <1>1, <1>9 DEF Source, FedFrom
<1>5. ASSUME NEW i \in Indexes, handler.calls[i] # None, handler'.calls[i] = handler.calls[i]
      PROVE  Source(i)'
  <2>1. PICK p \in 1 .. n : /\ IsEvent(p, {"toolStart"}) /\ said[p].index = i
                            /\ said[p].tool = handler.calls[i].tool /\ FedFrom(p, handler.calls[i].input)
    BY <1>1, <1>3, <1>5 DEF Source
  <2>2. PICK input : input = handler.calls[i].input
    OBVIOUS
  <2>3. FedFrom(p, input)'
    BY <1>1, <1>2, <2>1, <2>2, SourcesStay
  <2>4. p \in 1 .. n + 1 /\ IsEvent(p, {"toolStart"})' /\ said'[p] = said[p]
    BY <1>1, <1>4, <2>1
  <2> QED BY <1>5, <1>9, <2>1, <2>2, <2>3, <2>4
<1>6. ASSUME NEW i \in Indexes, handler'.calls[i] # None PROVE Source(i)'
  <2>1. CASE IsCall(m) /\ i = m.index
    <3>1. handler'.calls[i] = [tool |-> m.tool, input |-> <<>>]
      <4>1. handler'.calls = [handler.calls EXCEPT ![m.index] = [tool |-> m.tool, input |-> <<>>]]
        BY <2>1, CallsAfter
      <4> QED BY <1>2, <2>1, <4>1
    <3>2. handler'.calls[i].tool = m.tool /\ handler'.calls[i].input = <<>>
      BY <3>1
    <3>3. n + 1 \in 1 .. n + 1 /\ IsEvent(n + 1, {"toolStart"})'
      BY <1>4, <2>1 DEF IsCall
    <3>4. FedFrom(n + 1, <<>>)'
      <4>1. DOMAIN <<>> = {}
        OBVIOUS
      <4> QED BY <4>1 DEF FedFrom
    <3> QED BY <1>1, <1>9, <2>1, <3>2, <3>3, <3>4
  <2>2. CASE IsPart(m) /\ CallAt(m) # None /\ i = m.index
    <3>1. PICK c \in CallSet : c = handler.calls[i] /\ c = CallAt(m) /\ c # None
      BY <1>2, <2>2 DEF CallAt
    <3>2. handler'.calls[i] = [tool |-> c.tool, input |-> Append(c.input, m.tool)]
      <4>1. handler'.calls = [handler.calls EXCEPT ![m.index] =
                [tool |-> CallAt(m).tool, input |-> Append(CallAt(m).input, m.tool)]]
        BY <2>2, CallsAfter
      <4> QED BY <1>2, <2>2, <3>1, <4>1
    <3>3. /\ handler'.calls[i].tool = c.tool
          /\ handler'.calls[i].input = Append(c.input, m.tool) /\ c.input \in Seq(Tools)
      BY <3>1, <3>2 DEF CallSet
    <3>4. PICK p \in 1 .. n : /\ IsEvent(p, {"toolStart"}) /\ said[p].index = i
                              /\ said[p].tool = c.tool /\ FedFrom(p, c.input)
      BY <1>1, <1>3, <3>1 DEF Source
    <3>5. FedFrom(p, c.input)' /\ p \in 1 .. n + 1 /\ IsEvent(p, {"toolStart"})' /\ said'[p] = said[p]
      <4>1. PICK input : input = c.input
        OBVIOUS
      <4>2. FedFrom(p, input)'
        BY <1>1, <1>2, <3>4, <4>1, SourcesStay
      <4> QED BY <1>1, <1>4, <3>4, <4>1, <4>2
    <3>6. FedFrom(p, Append(c.input, m.tool))'
      <4> SUFFICES ASSUME NEW k \in DOMAIN Append(c.input, m.tool)
                   PROVE  \E r \in p .. n + 1 :
                             /\ IsEvent(r, {"input"})' /\ said'[r].index = said'[p].index
                             /\ said'[r].tool = Append(c.input, m.tool)[k]
        BY <1>1 DEF FedFrom
      <4>1. \/ k \in DOMAIN c.input /\ Append(c.input, m.tool)[k] = c.input[k]
            \/ Append(c.input, m.tool)[k] = m.tool
        BY <3>3
      <4>2. CASE k \in DOMAIN c.input /\ Append(c.input, m.tool)[k] = c.input[k]
        BY <1>1, <3>5, <4>2 DEF FedFrom
      <4>3. CASE Append(c.input, m.tool)[k] = m.tool
        <5>1. IsEvent(n + 1, {"input"})' /\ n + 1 \in p .. n + 1
          BY <1>4, <2>2 DEF IsPart
        <5> QED BY <1>1, <2>2, <3>4, <3>5, <4>3, <5>1
      <4> QED BY <4>1, <4>2, <4>3
    <3> QED BY <1>9, <3>3, <3>4, <3>5, <3>6
  <2>3. CASE ~(IsCall(m) /\ i = m.index) /\ ~(IsPart(m) /\ CallAt(m) # None /\ i = m.index)
    <3>1. handler'.calls[i] = handler.calls[i]
      <4>1. CASE IsCall(m)
        <5>1. handler'.calls = [handler.calls EXCEPT ![m.index] = [tool |-> m.tool, input |-> <<>>]]
          BY <4>1, CallsAfter
        <5> QED BY <1>2, <2>3, <4>1, <5>1
      <4>2. CASE IsPart(m) /\ CallAt(m) # None
        <5>1. handler'.calls = [handler.calls EXCEPT ![m.index] =
                  [tool |-> CallAt(m).tool, input |-> Append(CallAt(m).input, m.tool)]]
          BY <4>2, CallsAfter
        <5> QED BY <1>2, <2>3, <4>2, <5>1
      <4>3. CASE IsStop(m)
        <5>1. handler'.calls = [handler.calls EXCEPT ![m.index] = None]
          BY <4>3, CallsAfter
        <5> QED BY <1>2, <1>6, <5>1
      <4>4. CASE ~IsCall(m) /\ ~IsStop(m) /\ ~(IsPart(m) /\ CallAt(m) # None)
        <5>1. handler'.calls = handler.calls
          BY <4>4, CallsAfter
        <5> QED BY <5>1
      <4> QED BY <4>1, <4>2, <4>3, <4>4
    <3> QED BY <1>5, <1>6, <3>1
  <2> QED BY <2>1, <2>2, <2>3
<1>7. ASSUME NEW k \in DOMAIN Calls', NEW t, NEW input, t = Calls'[k].tool, input = Calls'[k].input
      PROVE  SentFor(t, input)'
  <2> SUFFICES SentFor(t, input)
    BY <1>2, SourcesStay
  <2>2. CASE k \in DOMAIN Calls
    BY <1>3, <1>7, <2>2, CallStays
  <2>3. CASE ShowsCall(m) /\ Calls'[k] = Call(CallAt(m))
    <3>1. m.index \in Indexes /\ CallAt(m) # None
      BY <2>3 DEF ShowsCall, Messages, WellMade
    <3>2. PICK c \in CallSet : c = handler.calls[m.index] /\ c = CallAt(m)
      BY <1>2, <3>1 DEF CallAt
    <3>3. t = c.tool /\ input = Shown(c.input) /\ c.input \in Seq(Tools)
      BY <1>7, <2>3, <3>2, CallFacts DEF CallSet
    <3>4. PICK p \in 1 .. n : IsEvent(p, {"toolStart"}) /\ said[p].tool = t /\ FedFrom(p, c.input)
      <4>1. Source(m.index)
        BY <1>3, <3>1, <3>2 DEF CallAt
      <4> QED BY <1>1, <3>2, <3>3, <4>1 DEF Source
    <3>5. \A j \in DOMAIN input : \E l \in DOMAIN c.input : input[j] = c.input[l]
      BY <3>3, ShownPart
    <3>6. FedFrom(p, input)
      BY <3>4, <3>5 DEF FedFrom
    <3> QED BY <1>1, <3>4, <3>6 DEF SentFor, FedFrom
  <2> QED BY <2>2, <2>3, CallStays
<1>8. (\A k \in DOMAIN Calls : SentFor(Calls[k].tool, Calls[k].input))'
  <2>1. ASSUME NEW k \in DOMAIN Calls'
        PROVE  \E p \in DOMAIN said' :
                  /\ IsEvent(p, {"toolStart"})' /\ said'[p].tool = Calls'[k].tool
                  /\ \A j \in DOMAIN Calls'[k].input : \E r \in p .. Len(said') :
                        /\ IsEvent(r, {"input"})' /\ said'[r].index = said'[p].index
                        /\ said'[r].tool = Calls'[k].input[j]
    <3>1. PICK t, input : t = Calls'[k].tool /\ input = Calls'[k].input
      OBVIOUS
    <3>2. SentFor(t, input)'
      BY <1>7, <3>1
    <3> QED BY <3>1, <3>2 DEF SentFor
  <2> QED BY <2>1 DEF SentFor
<1> QED BY <1>6, <1>8 DEF SourceInv

LEMMA SourceInit == Init => SourceInv
<1> SUFFICES ASSUME Init, turn.streams PROVE SourceInv
  BY DEF SourceInv
<1>1. frames = Append(<<>>, Frame("begin")) /\ \A i \in Indexes : handler.calls[i] = None
  BY DEF Init, Begin, NewHandler
<1>2. Calls = <<>>
  <2>1. <<>> \in Seq(FrameSet)
    OBVIOUS
  <2> QED BY <1>1, <2>1, CallsBegun
<1> QED BY <1>1, <1>2 DEF SourceInv

LEMMA SourceStep == TypeInv /\ SourceInv /\ [Next]_vars => SourceInv'
<1> SUFFICES ASSUME TypeInv, SourceInv, [Next]_vars, turn'.streams PROVE SourceInv'
  BY DEF SourceInv
<1>0. turn.streams
  BY TurnFixed
<1>1. ASSUME NEW m \in Messages, Sends(m) PROVE SourceInv'
  BY <1>0, <1>1, SourceSends
<1>2. CASE RetryQuery
  <2>1. frames \in Seq(FrameSet)
    BY DEF TypeInv
  <2>2. frames' = Append(frames, Frame("begin")) /\ \A i \in Indexes : handler'.calls[i] = None
    BY <1>0, <1>2, <2>1, BeginTyped DEF RetryQuery, NewHandler
  <2>3. Calls' = <<>>
    BY <2>1, <2>2, CallsBegun
  <2> QED BY <2>2, <2>3 DEF SourceInv
<1>3. CASE ManagedEvent \/ Closes \/ UNCHANGED vars
  <2>1. Calls' = Calls /\ UNCHANGED <<turn, handler, said>>
    BY <1>3, CallsKept
  <2> QED BY <2>1 DEF SourceInv, Source, FedFrom, SentFor, IsEvent
<1> QED BY <1>1, <1>2, <1>3, Steps

(* However the blocks of several authors overlap under an index, a call is   *)
(* streamed at most once, only if the tool filter lets it through, and with  *)
(* nothing that was sent before its start or under another index; one whose  *)
(* block no other author's block of the same index interrupts is streamed,   *)
(* with the input sent for it, as far as it is to be shown                   *)
(* (handleStreamEvent).                                                      *)
THEOREM CallsAreIntact == Spec => []CallsIntact
<1>1. Init => TypeInv /\ BlockInv /\ GatherInv /\ OneInv /\ ShownInv /\ SourceInv
  <2>1. Init => GatherInv /\ ShownInv
    <3> SUFFICES ASSUME Init PROVE GatherInv /\ ShownInv
      OBVIOUS
    <3>1. said = <<>> /\ Len(said) = 0 /\ \A p \in 1 .. 0 : FALSE
      BY DEF Init
    <3> QED BY <3>1 DEF GatherInv, ShownInv
  <2> QED BY <2>1, InitTyped, BlockInit, OneInit, SourceInit
<1>2. TypeInv /\ BlockInv /\ GatherInv /\ OneInv /\ ShownInv /\ SourceInv /\ [Next]_vars
      => (TypeInv /\ BlockInv /\ GatherInv /\ OneInv /\ ShownInv /\ SourceInv)'
  BY TypesStep, BlockStep, GatherStep, OneStep, ShownStep, SourceStep
<1>3. OneInv /\ ShownInv /\ SourceInv => CallsIntact
  <2> SUFFICES ASSUME OneInv, ShownInv, SourceInv, turn.streams PROVE CallsIntact
    BY DEF CallsIntact
  <2>1. ASSUME NEW i \in DOMAIN Calls
        PROVE  /\ CallsOf(Calls[i].tool) = {i} /\ ShowsTool(Calls[i].tool)
               /\ SentFor(Calls[i].tool, Calls[i].input)
    BY DEF OneInv, OneOfEach, SourceInv, CallsOf
  <2> QED BY <2>1 DEF ShownInv, ShownWhole, CallsIntact
<1> QED BY <1>1, <1>2, <1>3, PTL DEF Spec

================================================================================
