---------------------------- MODULE CorNet_proofs -----------------------------
(***************************************************************************)
(* For any size of the messages and any room on the way: the loops of      *)
(* write() and read() keep in step with the transport as long as no wait   *)
(* times out, so a call that returns true without a timeout has done what  *)
(* it says; and a timeout closes the socket, so that a stream has no gaps  *)
(* whatever times out.                                                     *)
(***************************************************************************)
EXTENDS CorNet, SequenceTheorems, TLAPS

Active == {"call", "loop", "some", "advance"}

\* Side s has got n bytes through: the client to the transport, the server to
\* its buffer.
Progress(s, n) ==
    IF s = "client" THEN Len(sent) = n
    ELSE IF kind = "tcp" THEN Len(sent) - Len(wire) = n
    ELSE \A i \in 1 .. n : buffer[i] # 0

\* The numbers of a call.
Counted(s) ==
    /\ pc[s] \in Active => base[s] = 0 \/ (s = "client" /\ base[s] = Part)
    /\ pc[s] \in {"loop", "some", "advance"} => remain[s] \in 0 .. Amount(s)
    /\ timedOut[s] => ~open[s]

\* While its socket is open a side is where its transport is.
InStep(s) ==
    /\ pc[s] \in {"begin", "builder", "opening"} =>
        Progress(s, 0) /\ base[s] = 0 /\ ~timedOut[s] /\ ~open[s]
    /\ pc[s] = "call" => (timedOut[s] \/ open[s]) /\ (open[s] => Progress(s, base[s]))
    /\ pc[s] = "loop" /\ open[s] => Progress(s, Offset(s))
    /\ pc[s] = "some" =>
        /\ open[s]
        /\ op[s] # "ended" => Progress(s, Offset(s))
        /\ op[s] = "ended" /\ size[s] >= 0 =>
            size[s] <= remain[s] /\ Progress(s, Offset(s) + size[s])
    /\ pc[s] = "advance" /\ size[s] >= 0 =>
        /\ timedOut[s] \/ open[s]
        /\ open[s] => size[s] <= remain[s] /\ Progress(s, Offset(s) + size[s])
    /\ pc[s] = "done" /\ ~timedOut[s] => base[s] = Total /\ Progress(s, Total)

\* The bytes of the message are sent in order, and those of a TCP stream are
\* in the buffer or on the way.
Stream ==
    /\ \A i \in 1 .. Len(sent) : sent[i] = i
    /\ kind = "tcp" =>
        /\ Len(wire) <= Len(sent)
        /\ \A i \in 1 .. Len(wire) : wire[i] = Len(sent) - Len(wire) + i
        /\ \A i \in 1 .. Len(sent) - Len(wire) : buffer[i] = i
    /\ NoGaps

Inv == TypeOK /\ Stream /\ \A s \in Sides : Counted(s) /\ InStep(s)

-----------------------------------------------------------------------------
LEMMA Numbers ==
  /\ Part \in Nat \ {0} /\ Total \in Nat /\ Total = 2 * Part /\ Room \in Nat
  /\ Amount("client") = Part /\ Amount("server") = Total
  /\ Sides = {"client", "server"} /\ "client" # "server"
  /\ Junk = -1 .. Total + 1
  BY PartAssumption DEF Total, Amount, Sides, Junk

LEMMA Bytes ==
  /\ Part \in Nat /\ Total \in Nat /\ Total = 2 * Part
  /\ Amount("client") = Part /\ Amount("server") = Total
  BY Numbers

\* What concatenation and SubSeq do to the bytes under way.
LEMMA Joined ==
  ASSUME NEW q \in Seq(1 .. Total), NEW r \in Seq(1 .. Total)
  PROVE  /\ q \o r \in Seq(1 .. Total) /\ Len(q \o r) = Len(q) + Len(r)
         /\ Len(q) \in Nat /\ Len(r) \in Nat
         /\ \A i \in 1 .. Len(q) : (q \o r)[i] = q[i]
         /\ \A i \in Len(q) + 1 .. Len(q) + Len(r) : (q \o r)[i] = r[i - Len(q)]
  BY ConcatProperties, LenProperties

\* The next n bytes of the message.
LEMMA Slice ==
  ASSUME NEW s, NEW k \in Nat, k = Offset(s), NEW n \in Nat, k + n <= Total
  PROVE  /\ Next1(s, n) \in Seq(1 .. Total) /\ Len(Next1(s, n)) = n
         /\ \A i \in 1 .. n : Next1(s, n)[i] = k + i
<1>1. \A i \in 1 .. n : k + i \in 1 .. Total
  BY Bytes
<1>2. Next1(s, n) \in [1 .. n -> 1 .. Total] /\ \A i \in 1 .. n : Next1(s, n)[i] = k + i
  BY <1>1 DEF Next1
<1>3. Next1(s, n) \in Seq(1 .. Total)
  BY <1>2, SeqDef
<1>4. Len(Next1(s, n)) = n
  <2>1. DOMAIN Next1(s, n) = 1 .. n /\ DOMAIN Next1(s, n) = 1 .. Len(Next1(s, n))
    BY <1>2, <1>3, LenProperties
  <2>2. Len(Next1(s, n)) \in Nat
    BY <1>3, LenProperties
  <2> QED  BY <2>1, <2>2
<1> QED  BY <1>2, <1>3, <1>4

LEMMA Cut ==
  ASSUME NEW q \in Seq(1 .. Total), NEW n \in 0 .. Len(q)
  PROVE  /\ SubSeq(q, 1, n) \in Seq(1 .. Total) /\ Len(SubSeq(q, 1, n)) = n /\ Len(q) \in Nat
         /\ DOMAIN SubSeq(q, 1, n) = 1 .. n
         /\ \A i \in 1 .. n : SubSeq(q, 1, n)[i] = q[i] /\ q[i] \in 1 .. Total
         /\ SubSeq(q, n + 1, Len(q)) \in Seq(1 .. Total)
         /\ Len(SubSeq(q, n + 1, Len(q))) = Len(q) - n
         /\ \A i \in 1 .. Len(q) - n : SubSeq(q, n + 1, Len(q))[i] = q[n + i]
<1>1. Len(q) \in Nat /\ n \in Nat /\ n <= Len(q)
  BY LenProperties
<1>0. \A i \in 1 .. Len(q) : q[i] \in 1 .. Total
  BY ElementOfSeq
<1>2. /\ SubSeq(q, 1, n) \in Seq(1 .. Total) /\ Len(SubSeq(q, 1, n)) = n
      /\ \A i \in 1 .. n : SubSeq(q, 1, n)[i] = q[i]
  BY <1>0, <1>1, SubSeqProperties
<1>3. /\ SubSeq(q, n + 1, Len(q)) \in Seq(1 .. Total)
      /\ Len(SubSeq(q, n + 1, Len(q))) = Len(q) - n
      /\ \A i \in 1 .. Len(q) - n : SubSeq(q, n + 1, Len(q))[i] = q[n + i]
  BY <1>0, <1>1, SubSeqProperties
<1> QED  BY <1>0, <1>1, <1>2, <1>3, LenProperties

\* Nothing happens to side s itself, nor to what it has got through.
Still(s) ==
    /\ pc'[s] = pc[s] /\ open'[s] = open[s] /\ op'[s] = op[s] /\ size'[s] = size[s]
    /\ base'[s] = base[s] /\ remain'[s] = remain[s] /\ timedOut'[s] = timedOut[s]

LEMMA StillInStep ==
  ASSUME Inv, NEW s \in Sides, Still(s), UNCHANGED kind,
         s = "client" => Len(sent') = Len(sent),
         s # "client" /\ kind = "tcp" => Len(sent') - Len(wire') = Len(sent) - Len(wire),
         s # "client" /\ kind # "tcp" => \A i : buffer[i] # 0 => buffer'[i] # 0
  PROVE  Counted(s)' /\ InStep(s)'
<1>1. Counted(s) /\ InStep(s)
  BY DEF Inv
<1>2. Offset(s)' = Offset(s)
  BY DEF Still, Offset
<1>3. Counted(s)'
  BY <1>1 DEF Counted, Still
<1>4. ASSUME NEW n, Progress(s, n)
      PROVE  IF s = "client" THEN Len(sent') = n
             ELSE IF kind' = "tcp" THEN Len(sent') - Len(wire') = n
             ELSE \A i \in 1 .. n : buffer'[i] # 0
  BY <1>4 DEF Progress
<1> DEFINE P(n) == IF s = "client" THEN Len(sent') = n
                   ELSE IF kind' = "tcp" THEN Len(sent') - Len(wire') = n
                   ELSE \A i \in 1 .. n : buffer'[i] # 0
<1>5. /\ Progress(s, 0)' <=> P(0)
      /\ Progress(s, base[s])' <=> P(base[s])
      /\ Progress(s, Offset(s))' <=> P(Offset(s))
      /\ Progress(s, Offset(s) + size[s])' <=> P(Offset(s) + size[s])
      /\ Progress(s, Total)' <=> P(Total)
  BY <1>2 DEF Still, Progress, Total
<1> HIDE DEF P
<1>6. \A n : Progress(s, n) => P(n)
  BY <1>4 DEF P
<1>7. InStep(s)'
  BY <1>1, <1>5, <1>6 DEF InStep, Still
<1> QED  BY <1>3, <1>7

\* Steps of one side that touch no data.
LEMMA QuietStep ==
  ASSUME Inv, NEW s \in Sides, UNCHANGED <<kind, dataVars>>,
         \A u \in Sides \ {s} : Still(u),
         TypeOK', Counted(s)', InStep(s)'
  PROVE  Inv'
<1>1. UNCHANGED <<wire, sent, buffer>>
  BY DEF dataVars
<1>2. Stream'
  BY <1>1 DEF Inv, Stream, NoGaps
<1>3. \A u \in Sides \ {s} : Counted(u)' /\ InStep(u)'
  BY <1>1, StillInStep
<1> QED  BY <1>2, <1>3 DEF Inv

LEMMA InvInit == Init => Inv
<1> SUFFICES ASSUME Init PROVE Inv
  OBVIOUS
<1> USE Numbers DEF Init
<1>1. TypeOK
  <2>1. sent \in Seq(1 .. Total) /\ Len(sent) = 0
    BY EmptySeq
  <2>2. /\ kind = "tcp" => wire \in Seq(1 .. Total) /\ Len(wire) <= Room
        /\ kind = "udp" => wire \subseteq Seq(1 .. Total)
    <3>1. CASE kind = "tcp"
      BY <3>1, EmptySeq
    <3>2. CASE kind = "udp"
      BY <3>2
    <3> QED  BY <3>1, <3>2
  <2>3. /\ listening \in BOOLEAN /\ open \in [Sides -> BOOLEAN] /\ timedOut \in [Sides -> BOOLEAN]
    OBVIOUS
  <2>4. /\ size \in [Sides -> Junk] /\ base \in [Sides -> 0 .. Total]
        /\ remain \in [Sides -> 0 .. Total] /\ buffer \in [1 .. Total -> 0 .. Total]
    OBVIOUS
  <2>5. /\ link \in {"none", "backlog", "up"} /\ kind \in {"tcp", "udp"}
        /\ pc \in [Sides -> {"begin", "builder", "opening", "call", "loop", "some", "advance",
                             "done", "failed", "null"}]
        /\ op \in [Sides -> {"none", "pending", "ended"}]
    OBVIOUS
  <2> QED  BY <2>1, <2>2, <2>3, <2>4, <2>5 DEF TypeOK
<1>2. Stream
  BY DEF Stream, NoGaps
<1>3. ASSUME NEW s \in Sides PROVE Counted(s) /\ InStep(s)
  <2>1. Counted(s)
    BY <1>3 DEF Counted
  <2>2. /\ Len(sent) = 0 /\ (kind = "tcp" => Len(wire) = 0)
        /\ pc[s] \in {"begin", "call"} /\ base[s] = 0 /\ ~timedOut[s]
        /\ open[s] <=> pc[s] = "call"
    BY <1>3, EmptySeq
  <2>3. Progress(s, 0)
    BY <2>2 DEF Progress
  <2>4. InStep(s)
    BY <2>2, <2>3 DEF InStep
  <2> QED  BY <2>1, <2>4
<1> QED  BY <1>1, <1>2, <1>3 DEF Inv

\* The three outcomes of a round of the loop: it fails, it goes on, or the call
\* returns true.
GivesUp(s) ==
    /\ pc' = [pc EXCEPT ![s] = "failed"] /\ open' = [open EXCEPT ![s] = FALSE]
    /\ UNCHANGED <<base, remain>>
GoesOn(s) ==
    /\ size[s] \in 0 .. remain[s] - 1
    /\ remain' = [remain EXCEPT ![s] = remain[s] - size[s]]
    /\ pc' = [pc EXCEPT ![s] = "loop"]
    /\ UNCHANGED <<base, open>>
Returns(s) ==
    /\ size[s] = remain[s]
    /\ remain' = [remain EXCEPT ![s] = 0]
    /\ \/ /\ base[s] + Amount(s) = Total
          /\ base' = [base EXCEPT ![s] = Total]
          /\ pc' = [pc EXCEPT ![s] = "done"] /\ open' = [open EXCEPT ![s] = FALSE]
       \/ /\ s = "client" /\ base[s] = 0
          /\ base' = [base EXCEPT ![s] = Part]
          /\ pc' = [pc EXCEPT ![s] = "call"] /\ UNCHANGED open

LEMMA AdvanceDoes ==
  ASSUME Inv, NEW s \in Sides, Advance(s)
  PROVE  /\ pc[s] = "advance" /\ UNCHANGED <<kind, link, listening, op, size, timedOut, dataVars>>
         /\ GivesUp(s) \/ GoesOn(s) \/ Returns(s)
<1> USE Numbers
<1>1. pc[s] = "advance" /\ UNCHANGED <<kind, link, listening, op, size, timedOut, dataVars>>
  BY DEF Advance, At, connVars
<1>2. TypeOK /\ (base[s] = 0 \/ (s = "client" /\ base[s] = Part))
  BY <1>1 DEF Inv, Counted, Active
<1> SUFFICES GivesUp(s) \/ GoesOn(s) \/ Returns(s)
  BY <1>1
<1>3. size[s] \in Int /\ remain[s] \in Nat /\ base[s] \in Nat /\ base \in [Sides -> 0 .. Total]
  BY <1>2 DEF TypeOK
<1>4. CASE size[s] < 0 \/ size[s] > remain[s]
  BY <1>3, <1>4 DEF Advance, GivesUp, Leave, Goto
<1>5. CASE size[s] >= 0 /\ size[s] < remain[s]
  <2>1. size[s] \in 0 .. remain[s] - 1 /\ size[s] # remain[s] /\ ~(size[s] < 0 \/ size[s] > remain[s])
    BY <1>3, <1>5
  <2> QED  BY <2>1 DEF Advance, GoesOn, Goto
<1>6. CASE size[s] = remain[s]
  <2>1. ~(size[s] < 0 \/ size[s] > remain[s]) /\ size[s] \notin 0 .. remain[s] - 1
    BY <1>3, <1>6
  <2>2. /\ remain' = [remain EXCEPT ![s] = 0]
        /\ base' = [base EXCEPT ![s] = base[s] + Amount(s)]
        /\ IF base'[s] = Total THEN Leave(s, "done") ELSE Goto(s, "call") /\ UNCHANGED open
    BY <2>1 DEF Advance
  <2>3. base'[s] = base[s] + Amount(s)
    BY <1>3, <2>2
  <2>4. CASE base[s] + Amount(s) = Total
    <3>1. /\ base' = [base EXCEPT ![s] = Total]
          /\ pc' = [pc EXCEPT ![s] = "done"] /\ open' = [open EXCEPT ![s] = FALSE]
      BY <2>2, <2>3, <2>4 DEF Leave, Goto
    <3> QED  BY <1>6, <2>2, <2>4, <3>1 DEF Returns
  <2>5. CASE base[s] + Amount(s) # Total
    <3>1. s = "client" /\ base[s] = 0 /\ Amount(s) = Part
      BY <1>2, <1>3, <2>5
    <3>2. base' = [base EXCEPT ![s] = Part] /\ pc' = [pc EXCEPT ![s] = "call"] /\ UNCHANGED open
      <4>1. base[s] + Amount(s) = Part
        BY <3>1
      <4> QED  BY <2>2, <2>3, <2>5, <4>1 DEF Goto
    <3> QED  BY <1>6, <2>2, <3>1, <3>2 DEF Returns
  <2> QED  BY <2>4, <2>5
<1> QED  BY <1>3, <1>4, <1>5, <1>6

LEMMA KeepAdvance == ASSUME Inv, NEW s \in Sides, Advance(s) PROVE Inv'
<1> USE Numbers
<1>1. TypeOK /\ Counted(s) /\ InStep(s)
  BY DEF Inv
<1>2. pc[s] = "advance" /\ UNCHANGED <<kind, link, listening, op, size, timedOut, dataVars>>
  BY AdvanceDoes
<1>3. ASSUME GivesUp(s) PROVE Inv'
  <2>1. TypeOK' /\ \A u \in Sides \ {s} : Still(u)
    BY <1>1, <1>2, <1>3 DEF GivesUp, TypeOK, Still, dataVars
  <2>2. Counted(s)' /\ InStep(s)'
    BY <1>1, <1>2, <1>3 DEF GivesUp, TypeOK, Counted, InStep, Active
  <2> QED  BY <1>2, <2>1, <2>2, QuietStep
<1>4. ASSUME GoesOn(s) PROVE Inv'
  <2>1. remain[s] \in 0 .. Amount(s) /\ base[s] \in Nat /\ remain'[s] = remain[s] - size[s]
    BY <1>1, <1>2, <1>4 DEF GoesOn, TypeOK, Counted
  <2>2. /\ pc' \in [Sides -> {"begin", "builder", "opening", "call", "loop", "some", "advance",
                            "done", "failed", "null"}]
        /\ remain' \in [Sides -> 0 .. Total]
    <3>1. remain[s] - size[s] \in 0 .. Total
      BY <1>4, <2>1 DEF GoesOn, Amount
    <3> QED  BY <1>1, <1>4, <3>1 DEF GoesOn, TypeOK
  <2>3. TypeOK'
    <3>1. UNCHANGED <<kind, link, listening, open, op, size, base, timedOut, wire, sent, buffer>>
      BY <1>2, <1>4 DEF GoesOn, dataVars
    <3>2. (kind = "tcp" => wire \in Seq(1 .. Total) /\ Len(wire) <= Room)'
      BY <1>1, <3>1 DEF TypeOK
    <3>3. (kind = "udp" => wire \subseteq Seq(1 .. Total))'
      BY <1>1, <3>1 DEF TypeOK
    <3>4. /\ kind' \in {"tcp", "udp"} /\ link' \in {"none", "backlog", "up"}
          /\ listening' \in BOOLEAN /\ open' \in [Sides -> BOOLEAN]
          /\ timedOut' \in [Sides -> BOOLEAN] /\ op' \in [Sides -> {"none", "pending", "ended"}]
      BY <1>1, <3>1 DEF TypeOK
    <3>5. /\ size' \in [Sides -> Junk] /\ base' \in [Sides -> 0 .. Total]
          /\ sent' \in Seq(1 .. Total) /\ Len(sent') <= Total
          /\ buffer' \in [1 .. Total -> 0 .. Total]
      BY <1>1, <3>1 DEF TypeOK
    <3> QED  BY <2>2, <3>2, <3>3, <3>4, <3>5 DEF TypeOK
  <2>4. \A u \in Sides \ {s} : Still(u)
    BY <1>1, <1>2, <1>4 DEF GoesOn, TypeOK, Still
  <2>5. Counted(s)'
    <3>1. remain'[s] \in 0 .. Amount(s)
      BY <1>4, <2>1 DEF GoesOn
    <3>2. pc'[s] = "loop" /\ open'[s] = open[s] /\ base'[s] = base[s] /\ timedOut'[s] = timedOut[s]
      BY <1>1, <1>2, <1>4 DEF GoesOn, TypeOK
    <3> QED  BY <1>1, <1>2, <3>1, <3>2 DEF Counted, Active, Amount
  <2>6. Offset(s)' = Offset(s) + size[s]
    BY <1>4, <2>1 DEF GoesOn, Offset, Amount
  <2>7. open[s] => Progress(s, Offset(s) + size[s])
    BY <1>1, <1>2, <1>4 DEF GoesOn, InStep
  <2>8. open[s] => Progress(s, Offset(s))'
    BY <1>2, <2>6, <2>7 DEF Progress, dataVars
  <2>9. InStep(s)'
    BY <1>1, <1>4, <2>8 DEF GoesOn, TypeOK, InStep
  <2> QED  BY <1>2, <2>3, <2>4, <2>5, <2>9, QuietStep
<1>5. ASSUME Returns(s) PROVE Inv'
  <2>1. remain[s] \in 0 .. Amount(s) /\ base[s] \in Nat
    BY <1>1, <1>2 DEF TypeOK, Counted
  <2>2. TypeOK' /\ \A u \in Sides \ {s} : Still(u)
    <3>1. /\ pc' \in [Sides -> {"begin", "builder", "opening", "call", "loop", "some", "advance",
                              "done", "failed", "null"}]
          /\ open' \in [Sides -> BOOLEAN]
      BY <1>1, <1>5 DEF Returns, TypeOK
    <3>4. 0 \in 0 .. Total /\ Part \in 0 .. Total /\ Total \in 0 .. Total
      OBVIOUS
    <3>5. base' \in [Sides -> 0 .. Total] /\ remain' \in [Sides -> 0 .. Total]
      <4>1. /\ base' = [base EXCEPT ![s] = Total] \/ base' = [base EXCEPT ![s] = Part]
            /\ remain' = [remain EXCEPT ![s] = 0]
        BY <1>5 DEF Returns
      <4> QED  BY <1>1, <3>4, <4>1 DEF TypeOK
    <3>2. TypeOK'
      BY <1>1, <1>2, <3>1, <3>5 DEF TypeOK, dataVars
    <3>3. \A u \in Sides \ {s} : Still(u)
      BY <1>1, <1>2, <1>5 DEF Returns, TypeOK, Still
    <3> QED  BY <3>2, <3>3
  <2>3. Counted(s)'
    BY <1>1, <1>2, <1>5 DEF Returns, TypeOK, Counted, Active
  <2>4. Offset(s) + size[s] = base[s] + Amount(s)
    BY <1>5, <2>1 DEF Returns, Offset
  <2>5. base'[s] = base[s] + Amount(s)
    BY <1>1, <1>5 DEF Returns, TypeOK
  <2>6. (timedOut[s] \/ open[s]) /\ (open[s] => Progress(s, base[s] + Amount(s)))
    BY <1>1, <1>2, <1>5, <2>1, <2>4 DEF Returns, InStep
  <2>7. open[s] => Progress(s, base[s])'
    BY <1>2, <2>5, <2>6 DEF Progress, dataVars
  <2>8. ASSUME pc'[s] = "done" PROVE InStep(s)'
    <3>1. base'[s] = Total
      BY <1>1, <1>5, <2>8 DEF Returns, TypeOK
    <3>2. ~timedOut'[s] => Progress(s, Total)'
      BY <1>2, <2>6, <2>7, <3>1 DEF Progress, Total
    <3> QED  BY <2>8, <3>1, <3>2 DEF InStep
  <2>9. ASSUME pc'[s] # "done" PROVE InStep(s)'
    <3>1. pc'[s] = "call" /\ open'[s] = open[s]
      BY <1>1, <1>5, <2>9 DEF Returns, TypeOK
    <3> QED  BY <1>2, <2>6, <2>7, <3>1 DEF InStep
  <2> QED  BY <1>2, <2>2, <2>3, <2>8, <2>9, QuietStep
<1> QED  BY <1>3, <1>4, <1>5, AdvanceDoes

\* n bytes more go to the transport; what is on the way moves up with them.
LEMMA KeepWriteHandler == ASSUME Inv, WriteHandler PROVE Inv'
<1> USE Bytes
<1>1. TypeOK /\ Stream /\ Counted("client") /\ InStep("client")
  BY Numbers DEF Inv
<1>2. PICK n \in 1 .. remain["client"] :
        /\ pc["client"] = "some"
        /\ \/ kind = "tcp" /\ Len(wire) + n <= Room /\ wire' = wire \o Next1("client", n)
           \/ kind = "udp" /\ wire' = wire \cup {Next1("client", n)}
        /\ op["client"] = "pending"
        /\ op' = [op EXCEPT !["client"] = "ended"]
        /\ size' = [size EXCEPT !["client"] = n]
        /\ sent' = sent \o Next1("client", n)
  BY DEF WriteHandler, Handle, At
<1>3. UNCHANGED <<kind, link, listening, pc, open, base, remain, timedOut, buffer>>
  BY DEF WriteHandler, connVars, callVars
<1>4. PICK k \in Nat :
        /\ k = Offset("client") /\ k = Len(sent) /\ n \in Nat /\ k + n <= Total
  <2>1. Offset("client") = Len(sent)
    BY <1>1, <1>2 DEF InStep, Progress
  <2>2. remain["client"] \in 0 .. Part /\ base["client"] \in {0, Part}
    BY <1>1, <1>2 DEF Counted, Active
  <2> QED  BY <1>2, <2>1, <2>2 DEF Offset
<1>5. PICK r \in Seq(1 .. Total) :
        r = Next1("client", n) /\ Len(r) = n /\ \A i \in 1 .. n : r[i] = k + i
  BY <1>4, Slice
<1>6. sent \in Seq(1 .. Total) /\ (kind = "tcp" => wire \in Seq(1 .. Total))
  BY <1>1 DEF TypeOK
<1>7. /\ sent' \in Seq(1 .. Total) /\ Len(sent) \in Nat /\ Len(sent') = Len(sent) + n
      /\ \A i \in 1 .. Len(sent) : sent'[i] = sent[i]
      /\ \A i \in Len(sent) + 1 .. Len(sent) + n : sent'[i] = k + (i - Len(sent))
  <2>1. sent' = sent \o r
    BY <1>2, <1>5
  <2>2. \A i \in Len(sent) + 1 .. Len(sent) + n : i - Len(sent) \in 1 .. n
    BY <1>4
  <2>3. /\ sent' \in Seq(1 .. Total) /\ Len(sent) \in Nat /\ Len(sent') = Len(sent) + n
        /\ \A i \in 1 .. Len(sent) : sent'[i] = sent[i]
        /\ \A i \in Len(sent) + 1 .. Len(sent) + n : sent'[i] = r[i - Len(sent)]
    <3>1. sent \in Seq(1 .. Total) /\ r \in Seq(1 .. Total)
      BY <1>6
    <3>2. /\ sent \o r \in Seq(1 .. Total) /\ Len(sent \o r) = Len(sent) + Len(r) /\ Len(sent) \in Nat
          /\ \A i \in 1 .. Len(sent) : (sent \o r)[i] = sent[i]
          /\ \A i \in Len(sent) + 1 .. Len(sent) + Len(r) : (sent \o r)[i] = r[i - Len(sent)]
      BY <3>1, Joined
    <3> QED  BY <1>5, <2>1, <3>2
  <2> QED  BY <1>5, <2>2, <2>3
<1>8. ASSUME kind = "tcp"
      PROVE  /\ wire' \in Seq(1 .. Total) /\ Len(wire') = Len(wire) + n /\ Len(wire) \in Nat
             /\ Len(wire') <= Room
             /\ \A i \in 1 .. Len(wire) : wire'[i] = wire[i]
             /\ \A i \in Len(wire) + 1 .. Len(wire) + n : wire'[i] = k + (i - Len(wire))
  <2>1. wire' = wire \o r /\ Len(wire) + n <= Room /\ Len(wire) \in Nat
    BY <1>2, <1>5, <1>6, <1>8, LenProperties
  <2>2. \A i \in Len(wire) + 1 .. Len(wire) + n : i - Len(wire) \in 1 .. n
    BY <1>4, <2>1
  <2>3. /\ wire' \in Seq(1 .. Total) /\ Len(wire') = Len(wire) + n
        /\ \A i \in 1 .. Len(wire) : wire'[i] = wire[i]
        /\ \A i \in Len(wire) + 1 .. Len(wire) + n : wire'[i] = r[i - Len(wire)]
    <3>1. wire \in Seq(1 .. Total) /\ r \in Seq(1 .. Total)
      BY <1>6, <1>8
    <3>2. /\ wire \o r \in Seq(1 .. Total) /\ Len(wire \o r) = Len(wire) + Len(r) /\ Len(wire) \in Nat
          /\ \A i \in 1 .. Len(wire) : (wire \o r)[i] = wire[i]
          /\ \A i \in Len(wire) + 1 .. Len(wire) + Len(r) : (wire \o r)[i] = r[i - Len(wire)]
      BY <3>1, Joined
    <3> QED  BY <1>5, <2>1, <3>2
  <2> QED  BY <1>5, <2>1, <2>2, <2>3
<1>9. TypeOK'
  <2>1. size' \in [Sides -> Junk] /\ op' \in [Sides -> {"none", "pending", "ended"}]
    BY <1>1, <1>2, <1>4, Numbers DEF TypeOK
  <2>2. sent' \in Seq(1 .. Total) /\ Len(sent') <= Total
    BY <1>4, <1>7
  <2>3. kind = "udp" => wire' \subseteq Seq(1 .. Total)
    BY <1>1, <1>2, <1>5, <1>7 DEF TypeOK
  <2> QED  BY <1>1, <1>3, <1>8, <2>1, <2>2, <2>3 DEF TypeOK
<1>10. Stream'
  <2>1. \A i \in 1 .. Len(sent') : sent'[i] = i
    <3> SUFFICES ASSUME NEW i \in 1 .. Len(sent') PROVE sent'[i] = i
      OBVIOUS
    <3>1. i \in 1 .. Len(sent) \/ i \in Len(sent) + 1 .. Len(sent) + n
      BY <1>4, <1>7
    <3> QED  BY <1>1, <1>4, <1>7, <3>1 DEF Stream
  <2>2. ASSUME kind = "tcp"
        PROVE  /\ Len(wire') <= Len(sent')
               /\ Len(sent') - Len(wire') = Len(sent) - Len(wire)
               /\ \A i \in 1 .. Len(wire') : wire'[i] = Len(sent') - Len(wire') + i
    <3>1. Len(wire) <= Len(sent) /\ \A i \in 1 .. Len(wire) : wire[i] = Len(sent) - Len(wire) + i
      BY <1>1, <2>2 DEF Stream
    <3>2. /\ Len(wire') = Len(wire) + n /\ Len(wire) \in Nat
          /\ Len(sent') = Len(sent) + n /\ Len(sent) \in Nat /\ k = Len(sent)
      BY <1>4, <1>7, <1>8, <2>2
    <3>3. ASSUME NEW i \in 1 .. Len(wire') PROVE wire'[i] = Len(sent') - Len(wire') + i
      <4>1. i \in 1 .. Len(wire) \/ i \in Len(wire) + 1 .. Len(wire) + n
        BY <1>4, <3>2
      <4>2. CASE i \in 1 .. Len(wire)
        <5>1. wire'[i] = wire[i]
          BY <1>8, <2>2, <4>2
        <5> QED  BY <1>4, <3>1, <3>2, <4>2, <5>1
      <4>3. CASE i \in Len(wire) + 1 .. Len(wire) + n
        <5>1. wire'[i] = k + (i - Len(wire))
          BY <1>8, <2>2, <4>3
        <5> QED  BY <1>4, <3>2, <4>3, <5>1
      <4> QED  BY <4>1, <4>2, <4>3
    <3> QED  BY <3>1, <3>2, <3>3, <1>4
  <2> QED  BY <1>1, <1>3, <2>1, <2>2 DEF Stream, NoGaps
<1>11. Counted("client")' /\ InStep("client")'
  <2>1. Counted("client")'
    BY <1>1, <1>3 DEF Counted, Amount
  <2>2. /\ pc'["client"] = "some" /\ open'["client"] /\ op'["client"] = "ended"
        /\ size'["client"] = n /\ n <= remain'["client"]
    <3>1. pc'["client"] = "some" /\ open'["client"] /\ n <= remain'["client"]
      BY <1>1, <1>2, <1>3, <1>4 DEF InStep
    <3>2. op'["client"] = "ended" /\ size'["client"] = n
      BY <1>1, <1>2, Numbers DEF TypeOK
    <3> QED  BY <3>1, <3>2
  <2>3. Offset("client")' = k
    BY <1>3, <1>4 DEF Offset, Amount
  <2>4. Progress("client", Offset("client") + size["client"])'
    BY <1>4, <1>7, <2>2, <2>3 DEF Progress
  <2> QED  BY <2>1, <2>2, <2>4 DEF InStep
<1>12. Counted("server")' /\ InStep("server")'
  <2>1. Still("server")
    BY <1>1, <1>2, <1>3, Numbers DEF Still, TypeOK
  <2>2. kind = "tcp" => Len(sent') - Len(wire') = Len(sent) - Len(wire)
    <3>1. ASSUME kind = "tcp" PROVE Len(sent') - Len(wire') = Len(sent) - Len(wire)
      <4>1. /\ Len(wire') = Len(wire) + n /\ Len(wire) \in Nat
            /\ Len(sent') = Len(sent) + n /\ Len(sent) \in Nat
        BY <1>7, <1>8, <3>1
      <4> QED  BY <1>4, <4>1
    <3> QED  BY <3>1
  <2> QED  BY <1>3, <2>1, <2>2, StillInStep, Numbers
<1> QED  BY <1>9, <1>10, <1>11, <1>12, Numbers DEF Inv

\* The buffer after some bytes have been stored.
LEMMA Stored ==
  ASSUME NEW k \in Nat, k = Offset("server"), NEW d \in Seq(1 .. Total), Store(d),
         buffer \in [1 .. Total -> 0 .. Total]
  PROVE  /\ buffer' \in [1 .. Total -> 0 .. Total]
         /\ \A i \in 1 .. Total : i \in k + 1 .. k + Len(d) => buffer'[i] = d[i - k] /\ i - k \in 1 .. Len(d)
         /\ \A i \in 1 .. Total : i \notin k + 1 .. k + Len(d) => buffer'[i] = buffer[i]
<1>1. Len(d) \in Nat /\ DOMAIN d = 1 .. Len(d) /\ \A j \in DOMAIN d : d[j] \in 1 .. Total
  BY LenProperties, ElementOfSeq
<1>2. buffer' = [i \in 1 .. Total |-> IF i - k \in DOMAIN d THEN d[i - k] ELSE buffer[i]]
  BY DEF Store
<1>3. \A i \in 1 .. Total : i - k \in DOMAIN d <=> i \in k + 1 .. k + Len(d)
  BY <1>1, Bytes
<1>4. \A i \in 1 .. Total : (IF i - k \in DOMAIN d THEN d[i - k] ELSE buffer[i]) \in 0 .. Total
  BY <1>1, Bytes
<1>5. buffer' \in [1 .. Total -> 0 .. Total]
  BY <1>2, <1>4
<1>6. \A i \in 1 .. Total : buffer'[i] = IF i - k \in DOMAIN d THEN d[i - k] ELSE buffer[i]
  BY <1>2
<1> QED  BY <1>1, <1>3, <1>5, <1>6

\* The server has stored n bytes more; the rest of a stream stays on the way.
LEMMA KeepReadHandler == ASSUME Inv, ReadHandler \/ EndOfStream PROVE Inv'
<1>1. TypeOK /\ Stream /\ Counted("server") /\ InStep("server") /\ wire \in Seq(1 .. Total)
  BY Numbers DEF Inv, TypeOK, ReadHandler, EndOfStream
<1>2. /\ pc["server"] = "some" /\ kind = "tcp" /\ op["server"] = "pending"
      /\ UNCHANGED <<kind, link, listening, pc, open, base, remain, timedOut, sent>>
      /\ op' = [op EXCEPT !["server"] = "ended"]
  BY DEF ReadHandler, EndOfStream, Handle, At, connVars, callVars, dataVars
<1>3. PICK k \in Nat : k = Offset("server") /\ k + remain["server"] = Total /\ remain["server"] \in Nat
  <2>1. remain["server"] \in 0 .. Total /\ base["server"] = 0
    BY <1>1, <1>2, Numbers DEF Counted, Active
  <2>2. Offset("server") = Total - remain["server"]
    BY <2>1, Numbers DEF Offset
  <2> QED  BY <2>1, <2>2, Numbers
<1>0. k = Len(sent) - Len(wire)
  BY <1>1, <1>2, <1>3, Numbers DEF InStep, Progress
<1>4. Len(wire) \in Nat /\ Len(sent) \in Nat /\ Len(sent) <= Total /\ Len(wire) <= Room /\ Room \in Nat
  BY <1>1, <1>2, LenProperties, Numbers DEF TypeOK
<1> DEFINE Takes(n) ==
        /\ n <= Len(wire)
        /\ size' = [size EXCEPT !["server"] = n]
        /\ wire' \in Seq(1 .. Total) /\ Len(wire') = Len(wire) - n
        /\ \A i \in 1 .. Len(wire') : wire'[i] = wire[n + i]
        /\ buffer' \in [1 .. Total -> 0 .. Total]
        /\ \A i \in 1 .. Total : i \in k + 1 .. k + n =>
            buffer'[i] = wire[i - k] /\ i - k \in 1 .. Len(wire)
        /\ \A i \in 1 .. Total : i \notin k + 1 .. k + n => buffer'[i] = buffer[i]
<1>5. PICK n \in 0 .. remain["server"] : Takes(n)
  <2>1. ASSUME NEW n \in 1 .. remain["server"], n <= Len(wire),
               Handle("server", n), Store(SubSeq(wire, 1, n)), wire' = SubSeq(wire, n + 1, Len(wire))
        PROVE  Takes(n)
    <3>1. n \in 0 .. Len(wire) /\ n \in 0 .. remain["server"]
      BY <1>3, <1>4, <2>1
    <3>2. PICK d \in Seq(1 .. Total) : d = SubSeq(wire, 1, n) /\ Len(d) = n
                                       /\ \A i \in 1 .. n : d[i] = wire[i]
      BY <1>1, <3>1, Cut
    <3>3. /\ wire' \in Seq(1 .. Total) /\ Len(wire') = Len(wire) - n
          /\ \A i \in 1 .. Len(wire) - n : wire'[i] = wire[n + i]
      BY <1>1, <2>1, <3>1, Cut
    <3>4. Store(d) /\ buffer \in [1 .. Total -> 0 .. Total]
      BY <1>1, <2>1, <3>2 DEF TypeOK
    <3>5. /\ buffer' \in [1 .. Total -> 0 .. Total]
          /\ \A i \in 1 .. Total : i \in k + 1 .. k + n => buffer'[i] = d[i - k] /\ i - k \in 1 .. n
          /\ \A i \in 1 .. Total : i \notin k + 1 .. k + n => buffer'[i] = buffer[i]
      <4>1. /\ buffer' \in [1 .. Total -> 0 .. Total]
            /\ \A i \in 1 .. Total : i \in k + 1 .. k + Len(d) =>
                buffer'[i] = d[i - k] /\ i - k \in 1 .. Len(d)
            /\ \A i \in 1 .. Total : i \notin k + 1 .. k + Len(d) => buffer'[i] = buffer[i]
        BY <1>3, <3>4, Stored
      <4> QED  BY <3>2, <4>1
    <3>6. \A i \in 1 .. n : i \in 1 .. Len(wire)
      BY <1>4, <3>1
    <3>7. size' = [size EXCEPT !["server"] = n]
      BY <2>1 DEF Handle
    <3> QED  BY <2>1, <3>1, <3>2, <3>3, <3>5, <3>6, <3>7
  <2>2. ASSUME wire = <<>>, Handle("server", 0), UNCHANGED <<wire, buffer>>
        PROVE  Takes(0)
    <3>1. buffer \in [1 .. Total -> 0 .. Total]
      BY <1>1 DEF TypeOK
    <3>2. 0 <= Len(wire) /\ Len(wire') = Len(wire) - 0 /\ wire' \in Seq(1 .. Total)
          /\ \A i \in 1 .. Len(wire') : wire'[i] = wire[0 + i]
      BY <1>1, <1>4, <2>2
    <3>3. \A i \in 1 .. Total : i \notin k + 1 .. k + 0
      OBVIOUS
    <3> QED  BY <2>2, <3>1, <3>2, <3>3 DEF Handle
  <2>3. \/ \E n \in 1 .. remain["server"] :
            /\ n <= Len(wire) /\ Handle("server", n) /\ Store(SubSeq(wire, 1, n))
            /\ wire' = SubSeq(wire, n + 1, Len(wire))
        \/ wire = <<>> /\ Handle("server", 0) /\ UNCHANGED <<wire, buffer>>
    BY DEF ReadHandler, EndOfStream, dataVars
  <2> HIDE DEF Takes
  <2>4. 0 \in 0 .. remain["server"] /\ \A n \in 1 .. remain["server"] : n \in 0 .. remain["server"]
    BY <1>3
  <2> QED  BY <2>1, <2>2, <2>3, <2>4
<1>6. Len(wire') \in Nat /\ Len(sent) - Len(wire') = k + n /\ k + n <= Total /\ n \in Nat
  <2>1. n \in Nat /\ n <= remain["server"] /\ n <= Len(wire) /\ Len(wire') = Len(wire) - n
    BY <1>3, <1>5
  <2> QED  BY <1>0, <1>3, <1>4, <2>1
<1>7. TypeOK'
  <2>1. size' \in [Sides -> Junk] /\ op' \in [Sides -> {"none", "pending", "ended"}]
    <3>1. n \in Junk
      BY <1>3, <1>6, Numbers
    <3> QED  BY <1>1, <1>2, <1>5, <3>1, Numbers DEF TypeOK
  <2>2. Len(wire') <= Room
    BY <1>4, <1>5
  <2> QED  BY <1>1, <1>2, <1>5, <2>1, <2>2 DEF TypeOK
<1>8. Stream'
  <2>1. \A i \in 1 .. Len(wire) : wire[i] = k + i
    BY <1>0, <1>1, <1>2 DEF Stream
  <2>2. \A i \in 1 .. Len(wire') : wire'[i] = Len(sent) - Len(wire') + i
    <3> SUFFICES ASSUME NEW i \in 1 .. Len(wire') PROVE wire'[i] = Len(sent) - Len(wire') + i
      OBVIOUS
    <3>1. wire'[i] = wire[n + i] /\ n + i \in 1 .. Len(wire)
      BY <1>4, <1>5, <1>6
    <3>2. wire[n + i] = k + (n + i)
      BY <2>1, <3>1
    <3>3. k + (n + i) = (k + n) + i
      BY <1>6
    <3> QED  BY <1>6, <3>1, <3>2, <3>3
  <2>3. ASSUME NEW i \in 1 .. Total, i \in k + 1 .. k + n PROVE buffer'[i] = i
    <3>1. buffer'[i] = wire[i - k] /\ i - k \in 1 .. Len(wire)
      BY <1>5, <2>3
    <3>2. wire[i - k] = k + (i - k)
      BY <2>1, <3>1
    <3> QED  BY <1>3, <3>1, <3>2
  <2>4. /\ \A i \in 1 .. k : buffer[i] = i
        /\ \A i \in 1 .. Total : buffer[i] \in {0, i}
    BY <1>0, <1>1, <1>2 DEF Stream, NoGaps
  <2>5. \A i \in 1 .. k + n : buffer'[i] = i
    <3> SUFFICES ASSUME NEW i \in 1 .. k + n PROVE buffer'[i] = i
      OBVIOUS
    <3>1. i \in 1 .. Total /\ (i \in k + 1 .. k + n \/ (i \in 1 .. k /\ i \notin k + 1 .. k + n))
      BY <1>6, Numbers
    <3> QED  BY <1>5, <2>3, <2>4, <3>1
  <2>6. \A i \in 1 .. Total : buffer'[i] \in {0, i}
    BY <1>5, <2>3, <2>4
  <2>7. Len(wire') <= Len(sent) /\ \A i \in 1 .. Len(sent) - Len(wire') : buffer'[i] = i
    BY <1>4, <1>6, <2>5
  <2> QED  BY <1>1, <1>2, <2>2, <2>6, <2>7 DEF Stream, NoGaps
<1>9. Counted("server")' /\ InStep("server")'
  <2>1. Counted("server")'
    BY <1>1, <1>2 DEF Counted, Amount
  <2>2. pc'["server"] = "some" /\ open'["server"]
    BY <1>1, <1>2, Numbers DEF InStep
  <2>3. op'["server"] = "ended" /\ size'["server"] = n /\ n <= remain'["server"]
    BY <1>1, <1>2, <1>3, <1>5, Numbers DEF TypeOK
  <2>4. Progress("server", Offset("server") + size["server"])'
    <3>1. Offset("server")' = k
      BY <1>2, <1>3 DEF Offset, Amount
    <3> QED  BY <1>2, <1>6, <2>3, <3>1, Numbers DEF Progress
  <2> QED  BY <2>1, <2>2, <2>3, <2>4 DEF InStep
<1>10. Counted("client")' /\ InStep("client")'
  <2>1. Still("client")
    BY <1>1, <1>2, <1>5, Numbers DEF Still, TypeOK
  <2> QED  BY <1>2, <2>1, StillInStep, Numbers
<1> QED  BY <1>7, <1>8, <1>9, <1>10, Numbers DEF Inv

\* One datagram is stored, as much of it as there is room for.
LEMMA KeepReceiveHandler == ASSUME Inv, ReceiveHandler PROVE Inv'
<1>1. TypeOK /\ Stream /\ Counted("server") /\ InStep("server")
  BY Numbers DEF Inv
<1>2. /\ pc["server"] = "some" /\ kind = "udp" /\ op["server"] = "pending"
      /\ UNCHANGED <<kind, link, listening, pc, open, base, remain, timedOut, sent>>
      /\ op' = [op EXCEPT !["server"] = "ended"]
      /\ wire' \subseteq wire
  BY DEF ReceiveHandler, Handle, At, connVars, callVars
<1>3. PICK k \in Nat : k = Offset("server") /\ k + remain["server"] = Total /\ remain["server"] \in Nat
  <2>1. remain["server"] \in 0 .. Total /\ base["server"] = 0
    BY <1>1, <1>2, Numbers DEF Counted, Active
  <2>2. Offset("server") = Total - remain["server"]
    BY <2>1, Numbers DEF Offset
  <2> QED  BY <2>1, <2>2, Numbers
<1>4. \A i \in 1 .. k : buffer[i] # 0
  BY <1>1, <1>2, <1>3, Numbers DEF InStep, Progress
<1>5. PICK g \in Seq(1 .. Total), n \in 0 .. remain["server"] :
        /\ n \in 0 .. Len(g)
        /\ size' = [size EXCEPT !["server"] = n]
        /\ Store(SubSeq(g, 1, n))
  <2>1. PICK g \in wire :
          LET n == IF Len(g) < remain["server"] THEN Len(g) ELSE remain["server"]
          IN  size' = [size EXCEPT !["server"] = n] /\ Store(SubSeq(g, 1, n))
    BY DEF ReceiveHandler, Handle
  <2> DEFINE n == IF Len(g) < remain["server"] THEN Len(g) ELSE remain["server"]
  <2>2. g \in Seq(1 .. Total) /\ Len(g) \in Nat
    BY <1>1, <1>2, LenProperties DEF TypeOK
  <2>3. n \in 0 .. remain["server"] /\ n \in 0 .. Len(g)
    BY <1>3, <2>2
  <2>4. size' = [size EXCEPT !["server"] = n] /\ Store(SubSeq(g, 1, n))
    BY <2>1
  <2> HIDE DEF n
  <2> QED  BY <2>2, <2>3, <2>4
<1>6. PICK d \in Seq(1 .. Total) : d = SubSeq(g, 1, n) /\ Len(d) = n
                                   /\ \A i \in 1 .. n : d[i] \in 1 .. Total
  <2>1. n \in 0 .. Len(g)
    BY <1>5
  <2>2. /\ SubSeq(g, 1, n) \in Seq(1 .. Total) /\ Len(SubSeq(g, 1, n)) = n
        /\ \A i \in 1 .. n : SubSeq(g, 1, n)[i] = g[i] /\ g[i] \in 1 .. Total
    BY <2>1, Cut
  <2> QED  BY <2>2
<1>7. /\ buffer' \in [1 .. Total -> 0 .. Total]
      /\ \A i \in 1 .. Total : i \in k + 1 .. k + n => buffer'[i] \in 1 .. Total
      /\ \A i \in 1 .. Total : i \notin k + 1 .. k + n => buffer'[i] = buffer[i]
  <2>1. Store(d) /\ buffer \in [1 .. Total -> 0 .. Total]
    BY <1>1, <1>5, <1>6 DEF TypeOK
  <2>2. /\ buffer' \in [1 .. Total -> 0 .. Total]
        /\ \A i \in 1 .. Total : i \in k + 1 .. k + Len(d) =>
            buffer'[i] = d[i - k] /\ i - k \in 1 .. Len(d)
        /\ \A i \in 1 .. Total : i \notin k + 1 .. k + Len(d) => buffer'[i] = buffer[i]
    BY <1>3, <2>1, Stored
  <2> QED  BY <1>6, <2>2
<1>8. n \in Nat /\ k + n <= Total /\ n <= remain["server"] /\ n \in Junk
  BY <1>3, Numbers
<1>9. TypeOK'
  <2>1. size' \in [Sides -> Junk] /\ op' \in [Sides -> {"none", "pending", "ended"}]
    BY <1>1, <1>2, <1>5, <1>8, Numbers DEF TypeOK
  <2> QED  BY <1>1, <1>2, <1>7, <2>1 DEF TypeOK
<1>10. Stream'
  BY <1>1, <1>2 DEF Stream, NoGaps
<1>11. Counted("server")' /\ InStep("server")'
  <2>1. Counted("server")'
    BY <1>1, <1>2 DEF Counted, Amount
  <2>2. pc'["server"] = "some" /\ open'["server"]
    BY <1>1, <1>2, Numbers DEF InStep
  <2>3. op'["server"] = "ended" /\ size'["server"] = n /\ n <= remain'["server"]
    BY <1>1, <1>2, <1>5, <1>8, Numbers DEF TypeOK
  <2>4. \A i \in 1 .. k + n : buffer'[i] # 0
    <3> SUFFICES ASSUME NEW i \in 1 .. k + n PROVE buffer'[i] # 0
      OBVIOUS
    <3>1. i \in 1 .. Total /\ (i \in k + 1 .. k + n \/ (i \in 1 .. k /\ i \notin k + 1 .. k + n))
      BY <1>8, Numbers
    <3> QED  BY <1>4, <1>7, <3>1
  <2>5. Progress("server", Offset("server") + size["server"])'
    <3>1. Offset("server")' = k
      BY <1>2, <1>3 DEF Offset, Amount
    <3> QED  BY <1>2, <2>3, <2>4, <3>1, Numbers DEF Progress
  <2> QED  BY <2>1, <2>2, <2>3, <2>5 DEF InStep
<1>12. Counted("client")' /\ InStep("client")'
  <2>1. Still("client")
    BY <1>1, <1>2, <1>5, Numbers DEF Still, TypeOK
  <2> QED  BY <1>2, <2>1, StillInStep, Numbers
<1> QED  BY <1>9, <1>10, <1>11, <1>12, Numbers DEF Inv

LEMMA KeepLose == ASSUME Inv, Lose PROVE Inv'
<1>1. TypeOK /\ Stream /\ \A s \in Sides : Counted(s) /\ InStep(s)
  BY DEF Inv
<1>2. /\ kind = "udp" /\ wire' \subseteq wire
      /\ UNCHANGED <<kind, link, listening, pc, open, op, size, base, remain, timedOut, sent, buffer>>
  BY DEF Lose, connVars, callVars
<1>3. TypeOK'
  BY <1>1, <1>2 DEF TypeOK
<1>4. Stream'
  BY <1>1, <1>2 DEF Stream, NoGaps
<1>5. \A s \in Sides : Counted(s)' /\ InStep(s)'
  <2> SUFFICES ASSUME NEW s \in Sides PROVE Counted(s)' /\ InStep(s)'
    OBVIOUS
  <2>1. Still(s)
    BY <1>2 DEF Still
  <2> QED  BY <1>2, <2>1, StillInStep
<1> QED  BY <1>3, <1>4, <1>5 DEF Inv

LEMMA KeepListen == ASSUME Inv, Listen PROVE Inv'
<1> USE Numbers
<1>1. TypeOK /\ Counted("server") /\ InStep("server")
  BY DEF Inv
<1>2. UNCHANGED <<kind, dataVars>>
  BY DEF Listen, connVars
<1>3. \A u \in Sides \ {"server"} : Still(u)
  BY <1>1 DEF Listen, At, Goto, connVars, callVars, Still, TypeOK
<1>4. TypeOK'
  BY <1>1, <1>2 DEF Listen, At, Goto, connVars, callVars, TypeOK, dataVars
<1>5. Counted("server")'
  BY <1>1 DEF Listen, At, Goto, connVars, callVars, TypeOK, Counted, Active
<1>6. InStep("server")'
  BY <1>1, <1>2 DEF Listen, At, Goto, connVars, callVars, TypeOK, Counted, InStep, Progress, Offset, Active, dataVars
<1> QED  BY <1>2, <1>3, <1>4, <1>5, <1>6, QuietStep

LEMMA KeepStartOpening == ASSUME Inv, NEW s \in Sides, StartOpening(s) PROVE Inv'
<1> USE Numbers
<1>1. TypeOK /\ Counted(s) /\ InStep(s)
  BY DEF Inv
<1>2. UNCHANGED <<kind, dataVars>>
  BY DEF StartOpening, connVars
<1>3. \A u \in Sides \ {s} : Still(u)
  BY <1>1 DEF StartOpening, At, Goto, connVars, callVars, Still, TypeOK
<1>4. TypeOK'
  BY <1>1, <1>2 DEF StartOpening, At, Goto, connVars, callVars, TypeOK, dataVars
<1>5. Counted(s)'
  BY <1>1 DEF StartOpening, At, Goto, connVars, callVars, TypeOK, Counted, Active
<1>6. InStep(s)'
  BY <1>1, <1>2 DEF StartOpening, At, Goto, connVars, callVars, TypeOK, Counted, InStep, Progress, Offset, Active, dataVars
<1> QED  BY <1>2, <1>3, <1>4, <1>5, <1>6, QuietStep

LEMMA KeepConnectHandler == ASSUME Inv, ConnectHandler PROVE Inv'
<1> USE Numbers
<1>1. TypeOK /\ Counted("client") /\ InStep("client")
  BY DEF Inv
<1>2. UNCHANGED <<kind, dataVars>>
  BY DEF ConnectHandler, connVars
<1>3. \A u \in Sides \ {"client"} : Still(u)
  BY <1>1 DEF ConnectHandler, Handle, At, Goto, connVars, callVars, Still, TypeOK
<1>4. TypeOK'
  BY <1>1, <1>2 DEF ConnectHandler, Handle, At, Goto, connVars, callVars, TypeOK, dataVars
<1>5. Counted("client")'
  BY <1>1 DEF ConnectHandler, Handle, At, Goto, connVars, callVars, TypeOK, Counted, Active
<1>6. InStep("client")'
  BY <1>1, <1>2 DEF ConnectHandler, Handle, At, Goto, connVars, callVars, TypeOK, Counted, InStep, Progress, Offset, Active, dataVars
<1> QED  BY <1>2, <1>3, <1>4, <1>5, <1>6, QuietStep

LEMMA KeepAcceptHandler == ASSUME Inv, AcceptHandler PROVE Inv'
<1> USE Numbers
<1>1. TypeOK /\ Counted("server") /\ InStep("server")
  BY DEF Inv
<1>2. UNCHANGED <<kind, dataVars>>
  BY DEF AcceptHandler, connVars
<1>3. \A u \in Sides \ {"server"} : Still(u)
  BY <1>1 DEF AcceptHandler, Handle, At, Goto, connVars, callVars, Still, TypeOK
<1>4. TypeOK'
  BY <1>1, <1>2 DEF AcceptHandler, Handle, At, Goto, connVars, callVars, TypeOK, dataVars
<1>5. Counted("server")'
  BY <1>1 DEF AcceptHandler, Handle, At, Goto, connVars, callVars, TypeOK, Counted, Active
<1>6. InStep("server")'
  BY <1>1, <1>2 DEF AcceptHandler, Handle, At, Goto, connVars, callVars, TypeOK, Counted, InStep, Progress, Offset, Active, dataVars
<1> QED  BY <1>2, <1>3, <1>4, <1>5, <1>6, QuietStep

LEMMA KeepOpened == ASSUME Inv, NEW s \in Sides, Opened(s) PROVE Inv'
<1> USE Numbers
<1>1. TypeOK /\ Counted(s) /\ InStep(s)
  BY DEF Inv
<1>2. UNCHANGED <<kind, dataVars>>
  BY DEF Opened, connVars
<1>3. \A u \in Sides \ {s} : Still(u)
  BY <1>1 DEF Opened, At, Goto, connVars, callVars, Still, TypeOK
<1>4. TypeOK'
  BY <1>1, <1>2 DEF Opened, At, Goto, connVars, callVars, TypeOK, dataVars
<1>5. Counted(s)'
  BY <1>1 DEF Opened, At, Goto, connVars, callVars, TypeOK, Counted, Active, InStep
<1>6. InStep(s)'
  BY <1>1, <1>2 DEF Opened, At, Goto, connVars, callVars, TypeOK, Counted, InStep, Progress, Offset, Active, dataVars
<1> QED  BY <1>2, <1>3, <1>4, <1>5, <1>6, QuietStep

LEMMA KeepOpeningFails == ASSUME Inv, OpeningFails PROVE Inv'
<1> USE Numbers
<1>1. TypeOK /\ Counted("client") /\ InStep("client")
  BY DEF Inv
<1>2. UNCHANGED <<kind, dataVars>>
  BY DEF OpeningFails, connVars
<1>3. \A u \in Sides \ {"client"} : Still(u)
  BY <1>1 DEF OpeningFails, At, Goto, connVars, callVars, Still, TypeOK
<1>4. TypeOK'
  BY <1>1, <1>2 DEF OpeningFails, At, Goto, connVars, callVars, TypeOK, dataVars
<1>5. Counted("client")'
  BY <1>1 DEF OpeningFails, At, Goto, connVars, callVars, TypeOK, Counted, Active
<1>6. InStep("client")'
  BY <1>1, <1>2 DEF OpeningFails, At, Goto, connVars, callVars, TypeOK, Counted, InStep, Progress, Offset, Active, dataVars
<1> QED  BY <1>2, <1>3, <1>4, <1>5, <1>6, QuietStep

LEMMA KeepConnectTimeout == ASSUME Inv, ConnectTimeout PROVE Inv'
<1> USE Numbers
<1>1. TypeOK /\ Counted("client") /\ InStep("client")
  BY DEF Inv
<1>2. UNCHANGED <<kind, dataVars>>
  BY DEF ConnectTimeout, connVars
<1>3. \A u \in Sides \ {"client"} : Still(u)
  BY <1>1 DEF ConnectTimeout, At, Goto, connVars, callVars, Still, TypeOK
<1>4. TypeOK'
  BY <1>1, <1>2 DEF ConnectTimeout, At, Goto, connVars, callVars, TypeOK, dataVars
<1>5. Counted("client")'
  BY <1>1 DEF ConnectTimeout, At, Goto, connVars, callVars, TypeOK, Counted, Active, InStep
<1>6. InStep("client")'
  BY <1>1, <1>2 DEF ConnectTimeout, At, Goto, connVars, callVars, TypeOK, Counted, InStep, Progress, Offset, Active, dataVars
<1> QED  BY <1>2, <1>3, <1>4, <1>5, <1>6, QuietStep

LEMMA KeepCall == ASSUME Inv, NEW s \in Sides, Call(s) PROVE Inv'
<1> USE Numbers
<1>1. TypeOK /\ Counted(s) /\ InStep(s)
  BY DEF Inv
<1>2. UNCHANGED <<kind, dataVars>>
  BY DEF Call, connVars
<1>3. \A u \in Sides \ {s} : Still(u)
  BY <1>1 DEF Call, At, Goto, connVars, callVars, Still, TypeOK
<1>4. TypeOK'
  BY <1>1, <1>2 DEF Call, At, Goto, connVars, callVars, TypeOK, dataVars
<1>5. Counted(s)'
  BY <1>1 DEF Call, At, Goto, connVars, callVars, TypeOK, Counted, Active
<1>6. InStep(s)'
  <2>1. pc[s] = "call" /\ pc'[s] = "loop" /\ Offset(s)' = base[s] /\ open'[s] = open[s]
    BY <1>1 DEF Call, At, Goto, TypeOK, Offset
  <2>2. open[s] => Progress(s, base[s])
    BY <1>1, <2>1 DEF InStep
  <2>3. open'[s] => Progress(s, Offset(s))'
    BY <1>2, <2>1, <2>2 DEF Progress, dataVars
  <2> QED  BY <2>1, <2>3 DEF InStep
<1> QED  BY <1>2, <1>3, <1>4, <1>5, <1>6, QuietStep

LEMMA KeepStartSome == ASSUME Inv, NEW s \in Sides, StartSome(s) PROVE Inv'
<1> USE Numbers
<1>1. TypeOK /\ Counted(s) /\ InStep(s)
  BY DEF Inv
<1>2. UNCHANGED <<kind, dataVars>>
  BY DEF StartSome, connVars
<1>3. \A u \in Sides \ {s} : Still(u)
  BY <1>1 DEF StartSome, At, Goto, connVars, callVars, Still, TypeOK
<1>4. TypeOK'
  BY <1>1, <1>2 DEF StartSome, At, Goto, connVars, callVars, TypeOK, dataVars
<1>5. Counted(s)'
  BY <1>1 DEF StartSome, At, Goto, connVars, callVars, TypeOK, Counted, Active
<1>6. InStep(s)'
  BY <1>1, <1>2 DEF StartSome, At, Goto, connVars, callVars, TypeOK, Counted, InStep, Progress, Offset, Active, dataVars
<1> QED  BY <1>2, <1>3, <1>4, <1>5, <1>6, QuietStep

LEMMA KeepSomeFails == ASSUME Inv, NEW s \in Sides, SomeFails(s) PROVE Inv'
<1> USE Numbers
<1>1. TypeOK /\ Counted(s) /\ InStep(s)
  BY DEF Inv
<1>2. UNCHANGED <<kind, dataVars>>
  BY DEF SomeFails, connVars
<1>3. \A u \in Sides \ {s} : Still(u)
  BY <1>1 DEF SomeFails, At, Goto, connVars, callVars, Still, TypeOK
<1>4. TypeOK'
  BY <1>1, <1>2 DEF SomeFails, At, Goto, connVars, callVars, TypeOK, dataVars
<1>5. Counted(s)'
  BY <1>1 DEF SomeFails, At, Goto, connVars, callVars, TypeOK, Counted, Active
<1>6. InStep(s)'
  BY <1>1, <1>2 DEF SomeFails, At, Goto, connVars, callVars, TypeOK, Counted, InStep, Progress, Offset, Active, dataVars
<1> QED  BY <1>2, <1>3, <1>4, <1>5, <1>6, QuietStep

LEMMA KeepErrorHandler == ASSUME Inv, NEW s \in Sides, ErrorHandler(s) PROVE Inv'
<1> USE Numbers
<1>1. TypeOK /\ Counted(s) /\ InStep(s)
  BY DEF Inv
<1>2. UNCHANGED <<kind, dataVars>>
  BY DEF ErrorHandler, connVars
<1>3. \A u \in Sides \ {s} : Still(u)
  BY <1>1 DEF ErrorHandler, Handle, At, Goto, connVars, callVars, Still, TypeOK
<1>4. TypeOK'
  BY <1>1, <1>2 DEF ErrorHandler, Handle, At, Goto, connVars, callVars, TypeOK, dataVars
<1>5. Counted(s)'
  BY <1>1 DEF ErrorHandler, Handle, At, Goto, connVars, callVars, TypeOK, Counted, Active
<1>6. InStep(s)'
  BY <1>1, <1>2 DEF ErrorHandler, Handle, At, Goto, connVars, callVars, TypeOK, Counted, InStep, Progress, Offset, Active, dataVars
<1> QED  BY <1>2, <1>3, <1>4, <1>5, <1>6, QuietStep

LEMMA KeepSomeEnds == ASSUME Inv, NEW s \in Sides, SomeEnds(s) PROVE Inv'
<1> USE Numbers
<1>1. TypeOK /\ Counted(s) /\ InStep(s)
  BY DEF Inv
<1>2. UNCHANGED <<kind, dataVars>>
  BY DEF SomeEnds, connVars
<1>3. \A u \in Sides \ {s} : Still(u)
  BY <1>1 DEF SomeEnds, At, Goto, connVars, callVars, Still, TypeOK
<1>4. TypeOK'
  BY <1>1, <1>2 DEF SomeEnds, At, Goto, connVars, callVars, TypeOK, dataVars
<1>5. Counted(s)'
  BY <1>1 DEF SomeEnds, At, Goto, connVars, callVars, TypeOK, Counted, Active
<1>6. InStep(s)'
  BY <1>1, <1>2 DEF SomeEnds, At, Goto, connVars, callVars, TypeOK, Counted, InStep, Progress, Offset, Active, dataVars
<1> QED  BY <1>2, <1>3, <1>4, <1>5, <1>6, QuietStep

LEMMA KeepSomeTimeout == ASSUME Inv, NEW s \in Sides, SomeTimeout(s) PROVE Inv'
<1> USE Numbers
<1>1. TypeOK /\ Counted(s) /\ InStep(s)
  BY DEF Inv
<1>2. UNCHANGED <<kind, dataVars>>
  BY DEF SomeTimeout, connVars
<1>3. \A u \in Sides \ {s} : Still(u)
  BY <1>1 DEF SomeTimeout, At, Goto, connVars, callVars, Still, TypeOK
<1>4. TypeOK'
  <2>1. PICK n \in Junk : size' = size \/ size' = [size EXCEPT ![s] = n]
    BY DEF SomeTimeout
  <2>2. /\ pc' = [pc EXCEPT ![s] = "advance"] /\ op' = [op EXCEPT ![s] = "none"]
        /\ open' = [open EXCEPT ![s] = FALSE] /\ timedOut' = [timedOut EXCEPT ![s] = TRUE]
        /\ UNCHANGED <<kind, link, listening, base, remain, dataVars>>
    BY DEF SomeTimeout, Goto, connVars
  <2> QED  BY <1>1, <2>1, <2>2 DEF TypeOK, dataVars
<1>5. Counted(s)'
  BY <1>1 DEF SomeTimeout, At, Goto, connVars, callVars, TypeOK, Counted, Active
<1>6. InStep(s)'
  BY <1>1, <1>2 DEF SomeTimeout, At, Goto, connVars, callVars, TypeOK, Counted, InStep, Progress, Offset, Active, dataVars
<1> QED  BY <1>2, <1>3, <1>4, <1>5, <1>6, QuietStep

LEMMA InvStep == Inv /\ [Next]_vars => Inv'
<1> SUFFICES ASSUME Inv, [Next]_vars PROVE Inv'
  OBVIOUS
<1>1. CASE UNCHANGED vars
  <2>1. UNCHANGED <<kind, link, listening, pc, open, op, size, base, remain, timedOut, wire, sent, buffer>>
    BY <1>1 DEF vars, connVars, callVars, dataVars
  <2>2. TypeOK' /\ Stream'
    BY <2>1 DEF Inv, TypeOK, Stream, NoGaps
  <2>3. \A s \in Sides : Counted(s)' /\ InStep(s)'
    BY <2>1, StillInStep DEF Still
  <2> QED  BY <2>2, <2>3 DEF Inv
<1>2. CASE Client
  BY <1>2, Numbers, KeepStartOpening, KeepOpened, KeepOpeningFails, KeepCall,
     KeepStartSome, KeepSomeFails, KeepSomeEnds, KeepAdvance
  DEF Client, Open, Loop, Some
<1>3. CASE Server
  BY <1>3, Numbers, KeepListen, KeepStartOpening, KeepOpened, KeepCall,
     KeepStartSome, KeepSomeFails, KeepSomeEnds, KeepAdvance
  DEF Server, Open, Loop, Some
<1>4. CASE Network
  BY <1>4, KeepConnectHandler, KeepAcceptHandler, KeepWriteHandler, KeepReadHandler,
     KeepReceiveHandler, KeepLose, KeepErrorHandler DEF Network
<1>5. CASE Timeouts
  BY <1>5, KeepConnectTimeout, KeepSomeTimeout DEF Timeouts
<1> QED  BY <1>1, <1>2, <1>3, <1>4, <1>5 DEF Next

LEMMA InvHolds == Spec => []Inv
  BY InvInit, InvStep, PTL DEF Spec

\* Sockets, calls, bytes under way and the server's buffer are what the code's
\* types allow: no call runs over its buffer.
THEOREM TypeCorrect == Spec => []TypeOK
<1>1. Inv => TypeOK
  BY DEF Inv
<1> QED  BY <1>1, InvHolds, PTL

\* write() and read() never skip, double or exchange a byte of a TCP stream,
\* whatever times out.
THEOREM StreamsHaveNoGaps == Spec => []NoGaps
<1>1. Inv => NoGaps
  BY DEF Inv, Stream
<1> QED  BY <1>1, InvHolds, PTL

\* A call of write() or read() that returns true without a timeout has done
\* what it says, however the transport cut the bytes.
THEOREM TrueIsDone == Spec => []TrueMeansDone
<1>1. ASSUME Inv PROVE TrueMeansDone
  <2> SUFFICES ASSUME NEW s \in Sides, Succeeded(s), ~timedOut[s] PROVE Achieved(s)
    BY DEF TrueMeansDone
  <2>1. TypeOK /\ Stream /\ Counted(s) /\ InStep(s)
    BY <1>1 DEF Inv
  <2>2. base[s] \in Nat /\ base[s] > 0 /\ Progress(s, base[s])
    BY <2>1, Numbers DEF Succeeded, InStep, TypeOK, Total
  <2>3. CASE s = "client"
    <3>1. sent \in Seq(1 .. Total) /\ Len(sent) = base[s]
      BY <2>1, <2>2, <2>3 DEF Progress, TypeOK
    <3>2. sent = [i \in 1 .. base[s] |-> i]
      BY <2>1, <3>1, LenProperties DEF Stream
    <3> QED  BY <2>2, <2>3, <3>2 DEF Achieved
  <2>4. CASE s = "server"
    <3>1. pc[s] # "call"
      BY <2>1, <2>2, <2>4, Numbers DEF Counted, Active
    <3>2. Progress(s, Total)
      BY <2>1, <3>1 DEF Succeeded, InStep
    <3>3. CASE kind = "tcp"
      BY <2>1, <2>4, <3>2, <3>3, Numbers DEF Progress, Stream, Achieved
    <3>4. CASE kind # "tcp"
      BY <2>4, <3>2, <3>4, Numbers DEF Progress, Achieved
    <3> QED  BY <3>3, <3>4
  <2> QED  BY <2>3, <2>4, Numbers
<1> QED  BY <1>1, InvHolds, PTL

==============================================================================
