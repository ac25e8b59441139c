------------------------- MODULE ToolRuntimeProofs -------------------------
(* Proofs about one session of a tool, for any set of texts, any lengths,   *)
(* any limit on the memory and any number of calls.                         *)
EXTENDS ToolRuntime, SequenceTheorems, TLAPS

\* The call under way is the one after those that ended.
CallNumbered == call # Null => call.number = Len(answers) + 1

Ended(number) == number \in DOMAIN answers

\* Every block is of a call that ended, or a local one of the call under way,
\* whose input has the size that free will be told.
BlocksOwned ==
    \A b \in blocks :
        \/ Ended(b.call)
        \/ /\ call # Null /\ b.call = call.number
           /\ b.role # "output"
           /\ b.role = "input" => b.size = InputAllocationSize(call.input)

\* The inductive invariant.
RuntimeInv ==
    /\ TypeOK
    /\ CallNumbered
    /\ BlocksOwned
    /\ InputFreed
    /\ OnlyOutputsStay
    /\ ErrorBufferBounded
    /\ ErrorIsOfThisCall
    /\ LockedNeverAnswers
-----------------------------------------------------------------------------
(* What the steps have in common.                                           *)

\* A grown buffer is a natural number of bytes, large enough, and no larger
\* than eight bytes or twice what it had or needed.
LEMMA GrowthBounded ==
    ASSUME NEW capacity \in Nat, NEW needed \in Nat
    PROVE  LET grown == GrownCapacity(capacity, needed) IN
              /\ grown \in Nat
              /\ grown >= needed
              /\ \/ grown = capacity \/ grown <= 8 \/ grown <= 2 * needed
  BY DEF GrownCapacity, Larger

\* wasm_alloc is asked for at least one byte.
LEMMA AllocationSizeNat ==
    ASSUME NEW input \in Inputs
    PROVE  InputAllocationSize(input) \in Nat
  BY ToolRuntimeAssumption DEF InputAllocationSize, Larger

\* An answer is added at the end, and the earlier ones stay.
LEMMA AnswerAppends ==
    ASSUME TypeOK, Len(answers) < MaxCalls, NEW input \in Inputs,
           NEW kind \in {"text", "error", "trap"}, NEW text \in Seq(Inputs),
           answers' = Append(answers, [input |-> input, kind |-> kind,
                                       text |-> text])
    PROVE  /\ answers' \in Seq(Answers)
           /\ Len(answers') = Len(answers) + 1
           /\ Len(answers') <= MaxCalls
           /\ \A i \in DOMAIN answers :
                 i \in DOMAIN answers' /\ answers'[i] = answers[i]
           /\ DOMAIN answers' = DOMAIN answers \cup {Len(answers) + 1}
           /\ answers'[Len(answers) + 1] =
                 [input |-> input, kind |-> kind, text |-> text]
  <1> DEFINE new == [input |-> input, kind |-> kind, text |-> text]
  <1>1. new \in Answers
    BY DEF Answers
  <1>2. answers \in Seq(Answers) /\ answers' = Append(answers, new)
    BY DEF TypeOK
  <1>3. MaxCalls \in Nat /\ Len(answers) \in Nat
    BY <1>2, ToolRuntimeAssumption, LenProperties
  <1> HIDE DEF new
  <1>4. /\ answers' \in Seq(Answers)
        /\ Len(answers') = Len(answers) + 1
        /\ \A i \in 1..Len(answers) : answers'[i] = answers[i]
        /\ answers'[Len(answers) + 1] = new
    BY <1>1, <1>2, AppendProperties
  <1>5. DOMAIN answers = 1..Len(answers) /\ DOMAIN answers' = 1..Len(answers')
    BY <1>2, <1>4, LenProperties
  <1> QED
    BY <1>3, <1>4, <1>5 DEF new
-----------------------------------------------------------------------------
\* A fresh session satisfies the invariant.
THEOREM RuntimeInit == Init => RuntimeInv
  <1> SUFFICES ASSUME Init PROVE RuntimeInv
    OBVIOUS
  <1>1. Len(answers) = 0 /\ answers \in Seq(Answers) /\ DOMAIN answers = {}
    BY DEF Init
  <1>2. errorText \in {<<>>} \cup {<<input>> : input \in Inputs}
    BY Zenon DEF Init
  <1>3. Len(answers) <= MaxCalls /\ errorCapacity \in Nat
    BY <1>1, ToolRuntimeAssumption DEF Init
  <1>4. TypeOK
    BY Zenon, <1>1, <1>2, <1>3 DEF Init, TypeOK
  <1> QED
    BY <1>1, <1>4
       DEF Init, RuntimeInv, CallNumbered, BlocksOwned, InputFreed,
           OnlyOutputsStay, ErrorBufferBounded, ErrorIsOfThisCall,
           LockedNeverAnswers

\* A String that convert allocates is one more block of the call under way.
LEMMA LocalBlockKeepsInv ==
    ASSUME RuntimeInv, call # Null,
           NEW point \in CallPoints, call' = [call EXCEPT !.at = point],
           NEW new \in Blocks, blocks' = blocks \cup {new},
           new.call = call.number, new.role \in {"copy", "result"},
           UNCHANGED <<answers, errorText, errorCapacity, locked>>
    PROVE  RuntimeInv'
  <1>1. /\ answers \in Seq(Answers) /\ Len(answers) \in Nat
        /\ DOMAIN answers = 1..Len(answers)
    BY LenProperties DEF RuntimeInv, TypeOK
  <1>2. call \in CallRecords /\ call.number = Len(answers) + 1
    BY DEF RuntimeInv, TypeOK, CallNumbered
  <1>3. /\ call' \in CallRecords /\ call' # Null
        /\ call'.number = call.number /\ call'.input = call.input
    BY <1>2, ToolRuntimeAssumption DEF CallRecords
  <1>4. ~Ended(new.call)
    BY <1>1, <1>2 DEF Ended
  <1>5. TypeOK'
    BY <1>3 DEF RuntimeInv, TypeOK
  <1>6. CallNumbered'
    BY <1>3 DEF RuntimeInv, CallNumbered
  <1>7. BlocksOwned'
    BY <1>3 DEF RuntimeInv, BlocksOwned, Ended
  <1>8. InputFreed'
    BY <1>3 DEF RuntimeInv, InputFreed
  <1>9. OnlyOutputsStay'
    <2>1. \A number \in DOMAIN answers : LeftBy(number)' = LeftBy(number)
      BY <1>4 DEF LeftBy, Ended
    <2> QED
      BY <2>1 DEF RuntimeInv, OnlyOutputsStay
  <1> QED
    BY <1>5, <1>6, <1>7, <1>8, <1>9
       DEF RuntimeInv, ErrorBufferBounded, ErrorIsOfThisCall,
           LockedNeverAnswers

\* The output of a call is a block of that call.
LEMMA OutputBlockParts ==
    ASSUME NEW number, NEW input
    PROVE  /\ OutputBlock(number, input).call = number
           /\ OutputBlock(number, input).role = "output"
  BY DEF OutputBlock, Block

\* The end of a call, however it ends: it is enough to say what it leaves
\* allocated besides its input, and what it leaves in LAST_ERROR.
LEMMA FinishKeepsInv ==
    ASSUME RuntimeInv, call # Null,
           NEW kind \in {"text", "error", "trap"}, NEW text \in Seq(Inputs),
           NEW live, live \subseteq Blocks, call' = Null,
           blocks' =
              live \ {Block(call.number, "input", FreedSize(call.input))},
           answers' = Append(answers, [input |-> call.input, kind |-> kind,
                                       text |-> text]),
           \A b \in live :
              \/ b \in blocks /\ (b.call = call.number /\ b.role # "input"
                                     => kind = "trap")
              \/ kind = "text" /\ b = OutputBlock(call.number, call.input),
           kind = "text" => OutputBlock(call.number, call.input) \in live,
           \A b \in blocks : b.call # call.number => b \in live,
           errorText' \in {<<>>} \cup {<<input>> : input \in Inputs},
           errorCapacity' \in Nat,
           ErrorBufferBounded',
           kind = "error" => text = <<call.input>>,
           locked' \in BOOLEAN,
           locked' => kind = "trap"
    PROVE  RuntimeInv'
  <1>1. /\ call \in CallRecords /\ call.input \in Inputs
        /\ call.number = Len(answers) + 1
        /\ call.number \in 1..MaxCalls
    BY DEF RuntimeInv, TypeOK, CallNumbered, CallRecords
  <1>2. Len(answers) \in Nat /\ MaxCalls \in Nat
        /\ DOMAIN answers = 1..Len(answers)
    BY ToolRuntimeAssumption, LenProperties DEF RuntimeInv, TypeOK
  <1>3. Len(answers) < MaxCalls
    BY <1>1, <1>2
  <1>4. /\ answers' \in Seq(Answers)
        /\ Len(answers') = Len(answers) + 1
        /\ Len(answers') <= MaxCalls
        /\ \A i \in DOMAIN answers :
              i \in DOMAIN answers' /\ answers'[i] = answers[i]
        /\ DOMAIN answers' = DOMAIN answers \cup {call.number}
        /\ answers'[call.number] =
              [input |-> call.input, kind |-> kind, text |-> text]
    <2>1. /\ TypeOK
          /\ answers' = Append(answers, [input |-> call.input, kind |-> kind,
                                         text |-> text])
      BY DEF RuntimeInv
    <2> DEFINE last == Len(answers) + 1
    <2>2. /\ answers' \in Seq(Answers)
          /\ Len(answers') = Len(answers) + 1
          /\ Len(answers') <= MaxCalls
          /\ \A i \in DOMAIN answers :
                i \in DOMAIN answers' /\ answers'[i] = answers[i]
          /\ DOMAIN answers' = DOMAIN answers \cup {last}
          /\ answers'[last] =
                [input |-> call.input, kind |-> kind, text |-> text]
      BY <1>1, <1>3, <2>1, AnswerAppends
    <2>3. call.number = last
      BY <1>1
    <2> HIDE DEF last
    <2> QED
      BY <2>2, <2>3
  <1>5. \A b \in live :
           b.call # call.number \/ b.role = "input" => b \in blocks
    BY OutputBlockParts
  <1>6. \A b \in blocks' :
           /\ b \in live
           /\ ~(b.role = "input" /\ b.call = call.number)
    <2> TAKE b \in blocks'
    <2>1. b \in live /\ b # Block(call.number, "input", FreedSize(call.input))
      OBVIOUS
    <2>2. CASE b.role = "input" /\ b.call = call.number
      <3>1. b \in blocks /\ b \in Blocks
        BY <1>5, <2>1, <2>2
      <3>2. ~Ended(b.call)
        BY <1>1, <1>2, <2>2 DEF Ended
      <3>3. b.size = InputAllocationSize(call.input)
        BY <2>2, <3>1, <3>2 DEF RuntimeInv, BlocksOwned
      <3>4. b = Block(call.number, "input", FreedSize(call.input))
        BY <2>2, <3>1, <3>3 DEF Blocks, Block, FreedSize
      <3> QED
        BY <2>1, <3>4
    <2> QED
      BY <2>1, <2>2
  <1>7. TypeOK'
    BY <1>4, <1>6 DEF TypeOK
  <1>8. BlocksOwned'
    <2> SUFFICES ASSUME NEW b \in blocks' PROVE Ended(b.call)'
      BY DEF BlocksOwned
    <2>1. b \in live
      BY <1>6
    <2>2. CASE b.call = call.number
      BY <1>4, <2>2 DEF Ended
    <2>3. CASE b.call # call.number
      BY <1>4, <1>5, <2>1, <2>3 DEF Ended, RuntimeInv, BlocksOwned
    <2> QED
      BY <2>2, <2>3
  <1>9. InputFreed'
    <2> SUFFICES ASSUME NEW b \in blocks', b.role = "input" PROVE FALSE
      BY DEF InputFreed
    <2>1. b \in blocks /\ b.call # call.number
      BY <1>5, <1>6
    <2> QED
      BY <2>1 DEF RuntimeInv, InputFreed
  <1>10. OnlyOutputsStay'
    <2>1. ASSUME NEW number \in DOMAIN answers
          PROVE  /\ LeftBy(number)' = LeftBy(number)
                 /\ answers'[number] = answers[number]
                 /\ number # call.number
      <3>1. number # call.number
        BY <1>1, <1>2
      <3>2. \A b \in live : b.call = number => b \in blocks
        BY <3>1, OutputBlockParts
      <3>3. \A b \in blocks : b.call = number => b \in blocks'
        BY <3>1 DEF Block
      <3> QED
        BY <1>4, <1>6, <3>1, <3>2, <3>3 DEF LeftBy
    <2>2. \A b \in blocks : b.call = call.number =>
             b.role \in {"input", "copy", "result"}
      BY <1>1, <1>2
         DEF RuntimeInv, BlocksOwned, Ended, TypeOK, Blocks, Roles
    <2>3. ASSUME NEW last, last = call.number,
                 NEW output, output = OutputBlock(last, call.input)
          PROVE  /\ kind = "text" => LeftBy(last)' = {output}
                 /\ kind = "error" => LeftBy(last)' = {}
                 /\ kind = "trap" =>
                       \A b \in LeftBy(last)' : b.role \in {"copy", "result"}
      <3>1. output.call = last /\ output.role = "output"
        BY <2>3, OutputBlockParts
      <3>2. kind = "text" => output \in blocks'
        <4>1. output # Block(call.number, "input", FreedSize(call.input))
          BY <3>1 DEF Block
        <4> QED
          BY <2>3, <4>1
      <3>3. \A b \in blocks' : b.call = last =>
               \/ kind = "trap" /\ b.role \in {"copy", "result"}
               \/ kind = "text" /\ b = output
        BY <1>6, <2>2, <2>3
      <3> QED
        BY <3>1, <3>2, <3>3 DEF LeftBy
    <2> SUFFICES ASSUME NEW number \in DOMAIN answers'
                 PROVE  LET answer == answers'[number] IN
                        /\ answer.kind = "text" =>
                              LeftBy(number)'
                                 = {OutputBlock(number, answer.input)}
                        /\ answer.kind = "error" => LeftBy(number)' = {}
                        /\ answer.kind = "trap" =>
                              \A b \in LeftBy(number)' :
                                 b.role \in {"copy", "result"}
      BY DEF OnlyOutputsStay, OutputBlock
    <2>4. CASE number = call.number
      BY <1>4, <2>3, <2>4
    <2>5. CASE number # call.number
      BY <1>4, <2>1, <2>5 DEF RuntimeInv, OnlyOutputsStay
    <2> QED
      BY <2>4, <2>5
  <1>11. ErrorIsOfThisCall'
    BY <1>4 DEF ErrorIsOfThisCall, RuntimeInv
  <1>12. LockedNeverAnswers'
    BY <1>1, <1>2, <1>4 DEF LockedNeverAnswers
  <1> QED
    BY <1>7, <1>8, <1>9, <1>10, <1>11, <1>12 DEF RuntimeInv, CallNumbered

\* Every step of a call keeps the invariant.
THEOREM RuntimeInductive == RuntimeInv /\ [Next]_vars => RuntimeInv'
  <1> SUFFICES ASSUME RuntimeInv, [Next]_vars PROVE RuntimeInv'
    OBVIOUS
  <1>a. /\ answers \in Seq(Answers) /\ Len(answers) \in Nat
        /\ DOMAIN answers = 1..Len(answers)
        /\ MaxCalls \in Nat
    BY ToolRuntimeAssumption, LenProperties DEF RuntimeInv, TypeOK
  <1>b. call # Null =>
           /\ call \in CallRecords /\ call.input \in Inputs
           /\ call.number = Len(answers) + 1
           /\ call.number \in 1..MaxCalls
    BY DEF RuntimeInv, TypeOK, CallNumbered, CallRecords
  <1>c. call # Null => \A b \in blocks :
           b.call = call.number => b.role \in {"input", "copy", "result"}
    BY <1>a, <1>b
       DEF RuntimeInv, BlocksOwned, Ended, TypeOK, Blocks, Roles
  <1>1. ASSUME NEW input \in Inputs, Execute(input) PROVE RuntimeInv'
    <2> DEFINE number == Len(answers) + 1
               new == Block(number, "input", InputAllocationSize(input))
    <2>1. /\ call = Null /\ Len(answers) < MaxCalls
          /\ call' = [number |-> number, input |-> input, at |-> "entered"]
          /\ blocks' = blocks \cup {new}
          /\ UNCHANGED <<answers, errorText, errorCapacity, locked>>
      BY <1>1 DEF Execute, CanCall
    <2>2. number \in 1..MaxCalls /\ ~Ended(number)
      BY <1>a, <2>1 DEF Ended
    <2>3. /\ new \in Blocks /\ new.call = number /\ new.role = "input"
          /\ new.size = InputAllocationSize(input)
      BY <2>2, AllocationSizeNat DEF Block, Blocks, Roles
    <2>4. /\ call' \in CallRecords /\ call' # Null
          /\ call'.number = number /\ call'.input = input
      BY <2>1, <2>2, ToolRuntimeAssumption DEF CallRecords, CallPoints
    <2> HIDE DEF new, number
    <2>5. TypeOK'
      BY <2>1, <2>3, <2>4 DEF RuntimeInv, TypeOK
    <2>6. CallNumbered'
      BY <2>1, <2>4 DEF CallNumbered, number
    <2>7. BlocksOwned'
      BY <2>1, <2>3, <2>4 DEF RuntimeInv, BlocksOwned, Ended
    <2>8. InputFreed'
      BY <2>1, <2>3, <2>4 DEF RuntimeInv, InputFreed
    <2>9. OnlyOutputsStay'
      <3>1. \A ended \in DOMAIN answers : LeftBy(ended)' = LeftBy(ended)
        BY <2>1, <2>2, <2>3 DEF LeftBy, Ended
      <3> QED
        BY <2>1, <3>1 DEF RuntimeInv, OnlyOutputsStay
    <2> QED
      BY <2>1, <2>5, <2>6, <2>7, <2>8, <2>9
         DEF RuntimeInv, ErrorBufferBounded, ErrorIsOfThisCall,
             LockedNeverAnswers
  <1>2. ASSUME NEW input \in Inputs, AllocTraps(input) PROVE RuntimeInv'
    <2>1. /\ call = Null /\ call' = Null /\ Len(answers) < MaxCalls
          /\ answers' = Append(answers, [input |-> input, kind |-> "trap",
                                         text |-> <<>>])
          /\ UNCHANGED <<blocks, errorText, errorCapacity, locked>>
      BY <1>2 DEF AllocTraps, CanCall, Answer
    <2> DEFINE number == Len(answers) + 1
    <2>2. /\ answers' \in Seq(Answers)
          /\ Len(answers') = Len(answers) + 1
          /\ Len(answers') <= MaxCalls
          /\ \A i \in DOMAIN answers :
                i \in DOMAIN answers' /\ answers'[i] = answers[i]
          /\ DOMAIN answers' = DOMAIN answers \cup {number}
          /\ answers'[number] =
                [input |-> input, kind |-> "trap", text |-> <<>>]
      <3>1. TypeOK /\ <<>> \in Seq(Inputs)
        BY DEF RuntimeInv
      <3> QED
        BY <2>1, <3>1, AnswerAppends
    <2>3. \A b \in blocks : Ended(b.call) /\ b.role # "input"
      BY <2>1 DEF RuntimeInv, BlocksOwned, InputFreed
    <2>4. Len(answers') = number
      BY <2>2
    <2> HIDE DEF number
    <2>5. TypeOK'
      BY <2>1, <2>2 DEF RuntimeInv, TypeOK
    <2>6. BlocksOwned' /\ InputFreed' /\ CallNumbered'
      BY <2>1, <2>2, <2>3 DEF BlocksOwned, InputFreed, CallNumbered, Ended
    <2>7. OnlyOutputsStay'
      <3>1. \A ended \in DOMAIN answers' : LeftBy(ended)' = LeftBy(ended)
        BY <2>1 DEF LeftBy
      <3>2. LeftBy(number) = {}
        BY <1>a, <2>3 DEF LeftBy, Ended, number
      <3> QED
        BY <2>2, <3>1, <3>2 DEF RuntimeInv, OnlyOutputsStay
    <2>8. ErrorIsOfThisCall'
      BY <2>2 DEF RuntimeInv, ErrorIsOfThisCall
    <2>9. LockedNeverAnswers' /\ ErrorBufferBounded'
      BY <2>1, <2>2, <2>4
         DEF RuntimeInv, LockedNeverAnswers, ErrorBufferBounded
    <2> QED
      BY <2>5, <2>6, <2>7, <2>8, <2>9 DEF RuntimeInv
  <1>3. CASE ReadInput
    <2> DEFINE new == Block(call.number, "copy", InputLength[call.input])
    <2>1. /\ call # Null /\ call' = [call EXCEPT !.at = "read"]
          /\ blocks' = blocks \cup {new}
          /\ UNCHANGED <<answers, errorText, errorCapacity, locked>>
      BY <1>3 DEF ReadInput, At
    <2>2. new \in Blocks
      BY <1>b, <2>1, ToolRuntimeAssumption DEF Block, Blocks, Roles
    <2> QED
      BY <1>a, <1>b, <2>1, <2>2, LocalBlockKeepsInv DEF CallPoints, Block
  <1>4. CASE ConvertText
    <2> DEFINE new == Block(call.number, "result", ResultLength(call.input))
    <2>1. /\ call # Null /\ call' = [call EXCEPT !.at = "converted"]
          /\ blocks' = blocks \cup {new}
          /\ UNCHANGED <<answers, errorText, errorCapacity, locked>>
      BY <1>4 DEF ConvertText, At
    <2>2. new \in Blocks
      BY <1>b, <2>1, ToolRuntimeAssumption
         DEF Block, Blocks, Roles, ResultLength
    <2> QED
      BY <1>a, <1>b, <2>1, <2>2, LocalBlockKeepsInv DEF CallPoints, Block
  <1>5. CASE ReturnText
    <2> DEFINE output == OutputBlock(call.number, call.input)
               live == Kept \cup {output}
               text == <<call.input>>
    <2>1. /\ call # Null /\ call' = Null /\ ~locked /\ errorText' = <<>>
          /\ blocks' =
                live \ {Block(call.number, "input", FreedSize(call.input))}
          /\ answers' = Append(answers, [input |-> call.input,
                                         kind |-> "text", text |-> text])
          /\ UNCHANGED <<errorCapacity, locked>>
      BY <1>5 DEF ReturnText, At, ClearLastError, Finish, Answer
    <2>2. /\ output \in Blocks
          /\ output.call = call.number /\ output.role = "output"
      <3>1. /\ OutputLength[call.input] \in Nat
            /\ OutputLength[call.input] + 1 \in Nat
        BY <1>b, <2>1, ToolRuntimeAssumption
      <3>2. GrownCapacity(OutputLength[call.input],
                          OutputLength[call.input] + 1) \in Nat
        BY <3>1, GrowthBounded
      <3> QED
        BY <1>b, <2>1, <3>2 DEF OutputBlock, Block, Blocks, Roles
    <2>3. live \subseteq Blocks
      BY <2>2 DEF Kept, RuntimeInv, TypeOK
    <2>4. /\ \A b \in live :
                \/ b \in blocks /\ ~(b.call = call.number /\ b.role # "input")
                \/ b = output
          /\ \A b \in blocks : b.call # call.number => b \in live
          /\ output \in live
      BY <1>c, <2>1, <2>2 DEF Kept
    <2>5. text \in Seq(Inputs)
      BY <1>b, <2>1
    <2>6. /\ errorText' \in {<<>>} \cup {<<input>> : input \in Inputs}
          /\ errorCapacity' \in Nat /\ locked' \in BOOLEAN
          /\ ErrorBufferBounded'
      BY Zenon, <2>1 DEF RuntimeInv, TypeOK, ErrorBufferBounded
    <2> HIDE DEF live, text
    <2> QED
      BY <2>1, <2>3, <2>4, <2>5, <2>6, FinishKeepsInv
  <1>6. CASE ReturnError
    <2> DEFINE text == <<call.input>>
    <2>1. /\ call # Null /\ call' = Null /\ ~locked /\ errorText' = text
          /\ errorCapacity' = GrownCapacity(errorCapacity,
                                            ErrorLength[call.input])
          /\ blocks' =
                Kept \ {Block(call.number, "input", FreedSize(call.input))}
          /\ answers' = Append(answers, [input |-> call.input,
                                         kind |-> "error", text |-> text])
          /\ UNCHANGED locked
      BY <1>6 DEF ReturnError, At, SetLastError, Finish, Answer
    <2>2. Kept \subseteq Blocks
      BY DEF Kept, RuntimeInv, TypeOK
    <2>3. /\ \A b \in Kept :
                b \in blocks /\ ~(b.call = call.number /\ b.role # "input")
          /\ \A b \in blocks : b.call # call.number => b \in Kept
      BY <1>c, <2>1 DEF Kept
    <2>4. text \in Seq(Inputs)
      BY <1>b, <2>1
    <2>5. errorText' \in {<<>>} \cup {<<input>> : input \in Inputs}
      BY Zenon, <1>b, <2>1
    <2>6. errorCapacity' \in Nat /\ ErrorBufferBounded'
      <3>1. ErrorLength[call.input] \in Nat /\ errorCapacity \in Nat
        BY <1>b, <2>1, ToolRuntimeAssumption DEF RuntimeInv, TypeOK
      <3>2. /\ errorCapacity' \in Nat
            /\ \/ errorCapacity' = errorCapacity
               \/ errorCapacity' <= 8
               \/ errorCapacity' <= 2 * ErrorLength[call.input]
        BY <2>1, <3>1, GrowthBounded
      <3> QED
        BY <1>b, <2>1, <3>1, <3>2 DEF RuntimeInv, ErrorBufferBounded
    <2>7. locked' \in BOOLEAN /\ ~locked'
      BY <2>1 DEF RuntimeInv, TypeOK
    <2> HIDE DEF text
    <2>8. text = <<call.input>>
      BY DEF text
    <2> QED
      BY <2>1, <2>2, <2>3, <2>4, <2>5, <2>6, <2>7, <2>8, FinishKeepsInv
  <1>7. ASSUME ConvertTraps \/ SetLastErrorTraps \/ AllocateCStringTraps
        PROVE  RuntimeInv'
    <2>1. /\ call # Null /\ call' = Null
          /\ blocks' =
                blocks \ {Block(call.number, "input", FreedSize(call.input))}
          /\ answers' = Append(answers, [input |-> call.input,
                                         kind |-> "trap", text |-> <<>>])
          /\ errorText' = errorText \/ errorText' = <<>>
          /\ locked' = locked \/ locked' = TRUE
          /\ UNCHANGED errorCapacity
      BY <1>7 DEF ConvertTraps, SetLastErrorTraps, AllocateCStringTraps, At,
                  ClearLastError, Finish, Answer
    <2>2. blocks \subseteq Blocks /\ <<>> \in Seq(Inputs)
      BY DEF RuntimeInv, TypeOK
    <2>3. /\ errorText' \in {<<>>} \cup {<<input>> : input \in Inputs}
          /\ errorCapacity' \in Nat /\ locked' \in BOOLEAN
          /\ ErrorBufferBounded'
      BY Zenon, <2>1 DEF RuntimeInv, TypeOK, ErrorBufferBounded
    <2> QED
      BY <2>1, <2>2, <2>3, FinishKeepsInv
  <1>8. CASE UNCHANGED vars
    BY <1>8
       DEF vars, RuntimeInv, TypeOK, CallNumbered, BlocksOwned, Ended,
           InputFreed, OnlyOutputsStay, LeftBy, ErrorBufferBounded,
           ErrorIsOfThisCall, LockedNeverAnswers
  <1> QED
    BY <1>1, <1>2, <1>3, <1>4, <1>5, <1>6, <1>7, <1>8 DEF Next

\* The invariant holds in every reachable state of a session.
THEOREM RuntimeCorrect == Spec => []RuntimeInv
  BY RuntimeInit, RuntimeInductive, PTL DEF Spec

\* A session's state keeps its types.
THEOREM RuntimeTypeCorrect == Spec => []TypeOK
  <1>1. RuntimeInv => TypeOK
    BY DEF RuntimeInv
  <1> QED
    BY <1>1, RuntimeCorrect, PTL

\* execute gives back every input buffer, however the call ended.
THEOREM InputAlwaysFreed == Spec => []InputFreed
  <1>1. RuntimeInv => InputFreed
    BY DEF RuntimeInv
  <1> QED
    BY <1>1, RuntimeCorrect, PTL

\* Only the outputs of conversions, and the Strings of trapped calls, stay.
THEOREM LeaksAreOutputs == Spec => []OnlyOutputsStay
  <1>1. RuntimeInv => OnlyOutputsStay
    BY DEF RuntimeInv
  <1> QED
    BY <1>1, RuntimeCorrect, PTL

\* However many conversions fail, LAST_ERROR's buffer stays bounded.
THEOREM ErrorBufferStaysBounded == Spec => []ErrorBufferBounded
  <1>1. RuntimeInv => ErrorBufferBounded
    BY DEF RuntimeInv
  <1> QED
    BY <1>1, RuntimeCorrect, PTL

\* An error message is always that of the call that reports it.
THEOREM ErrorsBelongToCalls == Spec => []ErrorIsOfThisCall
  <1>1. RuntimeInv => ErrorIsOfThisCall
    BY DEF RuntimeInv
  <1> QED
    BY <1>1, RuntimeCorrect, PTL

\* Once the mutex was lost in a trap, the session only traps.
THEOREM LockedSessionsTrap == Spec => []LockedNeverAnswers
  <1>1. RuntimeInv => LockedNeverAnswers
    BY DEF RuntimeInv
  <1> QED
    BY <1>1, RuntimeCorrect, PTL
=============================================================================
