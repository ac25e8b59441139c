------------------------- MODULE LinearMemoryProofs -------------------------
(* What execute reads is what the module wrote, for an address space of any  *)
(* size, that of wasm32 among them, and any texts.                           *)
EXTENDS LinearMemory, SequenceTheorems, TLAPS

-----------------------------------------------------------------------------
(* Addresses, blocks and the memory's growth.                               *)

LEMMA Constants ==
    /\ Half \in Nat \ {0} /\ Full \in Nat /\ Full = 2 * Half
    /\ Page \in Nat \ {0} /\ Base \in 1..Full
    /\ Addresses = 0..(Full - 1)
  BY LinearMemoryAssumption DEF Full, Addresses

LEMMA PointersRoundTrip ==
    ASSUME NEW address \in Addresses
    PROVE  /\ ToInt32(address) \in JsNumbers
           /\ ToAddress(ToInt32(address)) = address
           /\ ToInt32(address) >= 0 => ToInt32(address) = address
  BY Constants DEF ToInt32, ToAddress, JsNumbers

LEMMA RoundUp ==
    ASSUME NEW length \in Nat, length <= Full
    PROVE  LET rounded == ((length + Page - 1) \div Page) * Page
           IN  rounded \in length..Full
  <1> DEFINE q == (length + Page - 1) \div Page
             r == (length + Page - 1) % Page
             k == Full \div Page
  <1> USE Constants
  <1>1. /\ q \in Int /\ r \in 0..(Page - 1)
        /\ length + Page - 1 = Page * q + r
    OBVIOUS
  <1>2. k \in Int /\ Full = Page * k
    BY LinearMemoryAssumption
  <1> HIDE DEF q, r, k
  <1>3. length <= Page * q
    BY <1>1
  <1>4. q <= k
    <2> SUFFICES ASSUME q >= k + 1 PROVE FALSE
      BY <1>1, <1>2
    <2>1. Page * q >= Page * (k + 1)
      BY <1>1, <1>2
    <2> QED
      BY <1>1, <1>2, <2>1
  <1>5. Page * q <= Page * k
    BY <1>1, <1>2, <1>4
  <1> QED
    BY <1>1, <1>2, <1>3, <1>5 DEF q

LEMMA GrownHolds ==
    ASSUME NEW length \in Nat, length <= Full, size \in Base..Full
    PROVE  /\ Grown(length) \in Base..Full
           /\ Grown(length) >= size /\ Grown(length) >= length
  <1>1. CASE length <= size
    BY <1>1, Constants DEF Grown
  <1>2. CASE length > size
    <2> DEFINE rounded == ((length + Page - 1) \div Page) * Page
    <2>1. rounded \in length..Full
      BY RoundUp
    <2>2. Grown(length) = rounded
      BY <1>2, Constants DEF Grown
    <2> HIDE DEF rounded
    <2> QED
      BY <1>2, <2>1, <2>2, Constants
  <1> QED
    BY <1>1, <1>2, Constants

\* What the memory holds at an address.
Holds(address, bytes) ==
    \A i \in 1..Len(bytes) : memory[address + i - 1] = bytes[i]

LEMMA StoredHolds ==
    ASSUME memory \in [Addresses -> Symbols \cup {0}],
           NEW bytes \in Seq(Symbols \cup {0}),
           NEW address \in Addresses,
           memory' = Stored(address, bytes)
    PROVE  /\ memory' \in [Addresses -> Symbols \cup {0}]
           /\ address + Len(bytes) <= Full =>
                 \A i \in 1..Len(bytes) : memory'[address + i - 1] = bytes[i]
           /\ \A a \in Addresses : a < address => memory'[a] = memory[a]
  <1> USE Constants
  <1>1. Len(bytes) \in Nat
    OBVIOUS
  <1>2. \A a \in Addresses :
           memory'[a] = IF a \in Block(address, Len(bytes))
                        THEN bytes[a - address + 1] ELSE memory[a]
    BY DEF Stored
  <1>3. \A a \in Addresses : a \in Block(address, Len(bytes)) =>
           a - address + 1 \in 1..Len(bytes)
    BY <1>1 DEF Block
  <1>4. memory' \in [Addresses -> Symbols \cup {0}]
    <2>1. \A a \in Addresses : memory'[a] \in Symbols \cup {0}
      BY <1>2, <1>3
    <2> QED
      BY <2>1 DEF Stored
  <1>5. ASSUME address + Len(bytes) <= Full, NEW i \in 1..Len(bytes)
        PROVE  memory'[address + i - 1] = bytes[i]
    <2>1. /\ address + i - 1 \in Addresses
          /\ address + i - 1 \in Block(address, Len(bytes))
          /\ (address + i - 1) - address + 1 = i
      BY <1>1, <1>5 DEF Block
    <2> QED
      BY <1>2, <2>1
  <1>6. \A a \in Addresses : a < address => memory'[a] = memory[a]
    BY <1>1, <1>2 DEF Block
  <1> QED
    BY <1>4, <1>5, <1>6

\* A slice of what the memory holds is the text.
LEMMA SliceOfHeld ==
    ASSUME size \in Nat, NEW text \in Seq(Symbols), NEW from \in Nat,
           from + Len(text) <= size, Holds(from, text)
    PROVE  Slice(from, from + Len(text)) = text
  <1> DEFINE to == from + Len(text)
  <1>1. Len(text) \in Nat /\ to \in Nat /\ text \in [1..Len(text) -> Symbols]
    OBVIOUS
  <1>2. Clamp(from) = from /\ Clamp(to) = to
    BY <1>1 DEF Clamp
  <1>3. (IF Clamp(to) > Clamp(from) THEN Clamp(to) - Clamp(from) ELSE 0)
           = Len(text)
    BY <1>1, <1>2
  <1>4. Slice(from, to) = [i \in 1..Len(text) |-> memory[from + i - 1]]
    BY <1>2, <1>3 DEF Slice
  <1>5. \A i \in 1..Len(text) : memory[from + i - 1] = text[i]
    BY DEF Holds
  <1> QED
    BY <1>1, <1>4, <1>5

\* A slice of nothing.
LEMMA SliceOfNothing ==
    ASSUME size \in Nat, NEW from \in Int, NEW to \in Int,
           Clamp(to) <= Clamp(from)
    PROVE  Slice(from, to) = <<>>
  BY DEF Slice, Clamp

-----------------------------------------------------------------------------
(* The invariant.                                                           *)

\* Nobody writes below the heap; in particular, address 0 holds a 0.
BelowHeapIsZero ==
    \A address \in Addresses : address < Base => memory[address] = 0

\* The finally block will free what was allocated for the input.
InputHolds ==
    /\ inputBlock = IF at = "returned" THEN {} ELSE Freed
    /\ at = "writing" => /\ ToAddress(inputPtr) >= Base
                         /\ ToAddress(inputPtr) + Len(inputBytes) <= size

\* The output and its terminator lie in the memory, and the scan has not
\* passed the terminator, or address 0 when it came from below.
OutputHolds ==
    at = "scanning" =>
        LET address == ToAddress(outputPtr) IN
        /\ address + Len(written) < size
        /\ Holds(address, written)
        /\ memory[address + Len(written)] = 0
        /\ outputPtr >= 0 => end \in outputPtr..(outputPtr + Len(written))
        /\ outputPtr < 0 => end \in outputPtr..0

MessageHolds ==
    at = "failing" =>
        /\ ToAddress(outputPtr) + Len(written) <= size
        /\ Holds(ToAddress(outputPtr), written)

AnswersHold == TextIsExactOrLost /\ LowCallsNeverThrow

MemoryInv ==
    /\ MemoryTypeOK
    /\ BelowHeapIsZero /\ InputHolds /\ OutputHolds /\ MessageHolds
    /\ AnswersHold

LEMMA InitEstablishesMemoryInv == Init => MemoryInv
  <1> SUFFICES ASSUME Init PROVE MemoryInv
    OBVIOUS
  <1>1. <<>> \in Seq(Symbols)
    BY EmptySeq
  <1>2. MemoryTypeOK
    BY <1>1, Constants, LinearMemoryAssumption
       DEF Init, MemoryTypeOK, JsNumbers, CallPoints, Texts
  <1>3. BelowHeapIsZero
    BY DEF Init, BelowHeapIsZero
  <1> QED
    BY <1>2, <1>3 DEF Init, MemoryInv, InputHolds, OutputHolds, MessageHolds,
                      AnswersHold, TextIsExactOrLost,
                      LowCallsNeverThrow

-----------------------------------------------------------------------------
(* The steps.                                                               *)

LEMMA ExecuteKeepsInv ==
    ASSUME MemoryInv, NEW bytes \in Inputs, NEW address \in Addresses,
           Execute(bytes, address)
    PROVE  MemoryInv'
  <1> USE Constants
  <1> DEFINE length == AllocationSize(bytes)
             top == address + length
  <1>1. /\ bytes \in Seq(Symbols) /\ Len(bytes) \in Nat
        /\ length \in Nat /\ length >= 1 /\ length >= Len(bytes)
    BY LinearMemoryAssumption DEF AllocationSize
  <1>2. /\ address >= Base /\ top <= Full /\ top \in Nat
        /\ size' = Grown(top) /\ at' = "writing"
        /\ inputBytes' = bytes /\ inputPtr' = ToInt32(address)
        /\ inputBlock' = Block(address, length)
        /\ written' = <<>> /\ outputPtr' = 0 /\ end' = 0
        /\ calls' = calls + 1 /\ calls < MaxCalls
        /\ UNCHANGED <<memory, kept, errorBlock, answer>>
    BY <1>1 DEF Execute, CanAllocate
  <1> HIDE DEF length
  <1>3. /\ size' \in Base..Full /\ size' >= size /\ size' >= top
    BY <1>2, GrownHolds DEF MemoryInv, MemoryTypeOK
  <1>4. inputPtr' \in JsNumbers /\ ToAddress(inputPtr') = address
    BY <1>2, PointersRoundTrip
  <1>5. inputBlock' \subseteq Base..(size' - 1)
    BY <1>1, <1>2, <1>3 DEF Block
  <1>6. MemoryTypeOK'
    <2>1. (inputBlock \cup kept \cup errorBlock \subseteq Base..(size - 1))'
      BY <1>2, <1>3, <1>5 DEF MemoryInv, MemoryTypeOK
    <2>2. written' \in Texts /\ 0 \in JsNumbers /\ 0 \in (-Half)..Full
      BY <1>2, EmptySeq DEF Texts, JsNumbers
    <2>3. calls' \in 0..MaxCalls
      BY <1>2, LinearMemoryAssumption DEF MemoryInv, MemoryTypeOK
    <2> QED
      BY <1>2, <1>3, <1>4, <2>1, <2>2, <2>3
         DEF MemoryInv, MemoryTypeOK, CallPoints
  <1>7. InputHolds'
    BY <1>1, <1>2, <1>3, <1>4 DEF InputHolds, Freed, length, ToAddress
  <1> QED
    BY <1>2, <1>6, <1>7
       DEF MemoryInv, BelowHeapIsZero, OutputHolds, MessageHolds, AnswersHold,
           TextIsExactOrLost, LowCallsNeverThrow

\* The call ends with an answer as the properties want it.
LEMMA FinishKeepsInv ==
    ASSUME MemoryInv, at # "returned",
           NEW kind \in {"text", "error", "range", "unterminated", "trap"},
           NEW text \in Seq(Nat), Finish(kind, text),
           kind # "unterminated",
           kind = "range" => inputPtr < 0 \/ outputPtr < 0,
           kind = "error" => text = written,
           kind = "text" => text \in {<<>>, written},
           kind = "text" /\ outputPtr >= 0 => text = written
    PROVE  MemoryInv'
  <1> DEFINE low == inputPtr >= 0 /\ outputPtr >= 0
             result == [kind |-> kind, text |-> text, written |-> written,
                        low |-> low]
  <1>1. /\ at' = "returned" /\ answer' = result
        /\ inputBlock' = inputBlock \ Freed
        /\ UNCHANGED <<memory, size, kept, errorBlock, inputPtr, inputBytes,
                       outputPtr, end, written, calls>>
    BY DEF Finish, moduleVars, localVars
  <1>2. inputBlock' = {}
    BY <1>1 DEF MemoryInv, InputHolds
  <1>3. low \in BOOLEAN /\ inputPtr \in Int /\ outputPtr \in Int
    BY Constants DEF MemoryInv, MemoryTypeOK, JsNumbers
  <1>4. low => outputPtr >= 0 /\ ~(inputPtr < 0 \/ outputPtr < 0)
    BY <1>3
  <1> HIDE DEF low
  <1>5. result \in Answers
    BY <1>3 DEF MemoryInv, MemoryTypeOK, Answers
  <1>6. /\ result.kind = kind /\ result.text = text
        /\ result.written = written /\ result.low = low
    OBVIOUS
  <1> HIDE DEF result
  <1>7. MemoryTypeOK'
    BY <1>1, <1>2, <1>5 DEF MemoryInv, MemoryTypeOK, CallPoints
  <1>8. AnswersHold'
    BY <1>1, <1>4, <1>6
       DEF AnswersHold, TextIsExactOrLost, LowCallsNeverThrow
  <1> QED
    BY <1>1, <1>2, <1>7, <1>8
       DEF MemoryInv, BelowHeapIsZero, InputHolds, OutputHolds, MessageHolds

LEMMA WritingKeepsInv ==
    ASSUME MemoryInv, WriteBytes \/ WriteThrows
    PROVE  MemoryInv'
  <1> USE Constants
  <1>1. /\ inputPtr \in JsNumbers /\ inputBytes \in Seq(Symbols)
        /\ size \in Base..Full
        /\ memory \in [Addresses -> Symbols \cup {0}]
    BY LinearMemoryAssumption, EmptySeq DEF MemoryInv, MemoryTypeOK
  <1>2. CASE WriteThrows
    <2>1. at = "writing" /\ Finish("range", <<>>)
          /\ ~InBuffer(inputPtr, Len(inputBytes))
      BY <1>2 DEF WriteThrows
    <2>2. inputPtr < 0
      BY <1>1, <2>1 DEF InBuffer, MemoryInv, InputHolds, ToAddress, JsNumbers
    <2>3. <<>> \in Seq(Nat)
      BY EmptySeq
    <2> QED
      BY <2>1, <2>2, <2>3, FinishKeepsInv
  <1>3. CASE WriteBytes
    <2>1. /\ at = "writing" /\ at' = "converting"
          /\ inputPtr >= 0
          /\ memory' = Stored(inputPtr, inputBytes)
          /\ UNCHANGED <<size, kept, errorBlock, inputPtr, inputBytes,
                         outputPtr, end, written, inputBlock, answer, calls>>
      BY <1>3 DEF WriteBytes, InBuffer, localVars
    <2>2. inputPtr \in Addresses /\ inputPtr >= Base
      BY <1>1, <2>1 DEF MemoryInv, InputHolds, ToAddress, JsNumbers
    <2>3. inputBytes \in Seq(Symbols \cup {0})
      BY <1>1
    <2>4. /\ memory' \in [Addresses -> Symbols \cup {0}]
          /\ \A a \in Addresses : a < inputPtr => memory'[a] = memory[a]
      BY <1>1, <2>1, <2>2, <2>3, StoredHolds
    <2>5. BelowHeapIsZero'
      BY <2>2, <2>4 DEF MemoryInv, BelowHeapIsZero
    <2>6. MemoryTypeOK'
      BY <2>1, <2>4 DEF MemoryInv, MemoryTypeOK, CallPoints
    <2>7. InputHolds'
      BY <2>1 DEF MemoryInv, InputHolds, Freed
    <2> QED
      BY <2>1, <2>5, <2>6, <2>7
         DEF MemoryInv, OutputHolds, MessageHolds, AnswersHold,
             TextIsExactOrLost, LowCallsNeverThrow
  <1> QED
    BY <1>2, <1>3

\* What the module writes while it converts: a text, at an address in the
\* heap, in a memory that has grown to hold it.
LEMMA ModuleWrites ==
    ASSUME MemoryInv, NEW bytes \in Seq(Symbols \cup {0}), bytes # <<>>,
           NEW address \in Addresses, NEW others,
           CanAllocate(address, Len(bytes), others),
           memory' = Stored(address, bytes),
           size' = Grown(address + Len(bytes))
    PROVE  /\ memory' \in [Addresses -> Symbols \cup {0}]
           /\ \A i \in 1..Len(bytes) : memory'[address + i - 1] = bytes[i]
           /\ BelowHeapIsZero'
           /\ size' \in Base..Full /\ size' >= size
           /\ address + Len(bytes) <= size'
           /\ Block(address, Len(bytes)) \subseteq Base..(size' - 1)
           /\ ToInt32(address) \in JsNumbers
           /\ ToAddress(ToInt32(address)) = address
           /\ ToInt32(address) >= 0 => ToInt32(address) = address
  <1> USE Constants
  <1>1. /\ Len(bytes) \in Nat
        /\ address >= Base /\ address + Len(bytes) <= Full
    BY DEF CanAllocate
  <1>2. /\ size' \in Base..Full /\ size' >= size
        /\ address + Len(bytes) <= size'
    BY <1>1, GrownHolds DEF MemoryInv, MemoryTypeOK
  <1>3. /\ memory' \in [Addresses -> Symbols \cup {0}]
        /\ \A i \in 1..Len(bytes) : memory'[address + i - 1] = bytes[i]
        /\ \A a \in Addresses : a < address => memory'[a] = memory[a]
    BY <1>1, StoredHolds DEF MemoryInv, MemoryTypeOK
  <1>4. BelowHeapIsZero'
    BY <1>1, <1>3 DEF MemoryInv, BelowHeapIsZero
  <1>5. Block(address, Len(bytes)) \subseteq Base..(size' - 1)
    BY <1>1, <1>2 DEF Block
  <1> QED
    BY <1>2, <1>3, <1>4, <1>5, PointersRoundTrip

LEMMA ConvertKeepsInv ==
    ASSUME MemoryInv, NEW text \in Outputs, NEW address \in Addresses,
           Convert(text, address)
    PROVE  MemoryInv'
  <1> USE Constants
  <1> DEFINE bytes == CString(text)
  <1>1. /\ text \in Seq(Symbols) /\ Len(text) \in Nat
        /\ bytes \in Seq(Symbols \cup {0})
        /\ Len(bytes) = Len(text) + 1
        /\ \A i \in 1..Len(text) : bytes[i] = text[i]
        /\ bytes[Len(text) + 1] = 0
    <2>1. text \in Seq(Symbols) /\ text \in Seq(Symbols \cup {0})
      BY LinearMemoryAssumption
    <2> QED
      BY <2>1, AppendProperties DEF CString
  <1>2. /\ at = "converting" /\ at' = "scanning"
        /\ CanAllocate(address, Len(bytes),
                       inputBlock \cup kept \cup errorBlock)
        /\ memory' = Stored(address, bytes)
        /\ size' = Grown(address + Len(bytes))
        /\ kept' = kept \cup Block(address, Len(bytes))
        /\ written' = text /\ outputPtr' = ToInt32(address)
        /\ end' = outputPtr'
        /\ UNCHANGED <<errorBlock, inputPtr, inputBytes, inputBlock, answer,
                       calls>>
    BY DEF Convert
  <1> HIDE DEF bytes
  <1>3. /\ memory' \in [Addresses -> Symbols \cup {0}]
        /\ \A i \in 1..Len(bytes) : memory'[address + i - 1] = bytes[i]
        /\ BelowHeapIsZero'
        /\ size' \in Base..Full /\ size' >= size
        /\ address + Len(bytes) <= size'
        /\ Block(address, Len(bytes)) \subseteq Base..(size' - 1)
        /\ outputPtr' \in JsNumbers
        /\ ToAddress(outputPtr') = address
        /\ outputPtr' >= 0 => outputPtr' = address
    <2>1. bytes # <<>>
      BY <1>1
    <2> QED
      BY <1>1, <1>2, <2>1, ModuleWrites
  <1>4. MemoryTypeOK'
    <2>1. (inputBlock \cup kept \cup errorBlock \subseteq Base..(size - 1))'
      BY <1>2, <1>3 DEF MemoryInv, MemoryTypeOK
    <2>2. end' \in (-Half)..Full /\ written' \in Texts
      BY <1>1, <1>2, <1>3 DEF JsNumbers, Texts
    <2> QED
      BY <1>2, <1>3, <2>1, <2>2 DEF MemoryInv, MemoryTypeOK, CallPoints
  <1>5. OutputHolds'
    <2>1. Holds(address, text)'
      <3>1. \A i \in 1..Len(text) : memory'[address + i - 1] = text[i]
        BY <1>1, <1>3
      <3> QED
        BY <3>1 DEF Holds
    <2>2. memory'[address + Len(text)] = 0
      <3>1. Len(text) + 1 \in 1..Len(bytes)
            /\ address + (Len(text) + 1) - 1 = address + Len(text)
        BY <1>1
      <3> QED
        BY <1>1, <1>3, <3>1
    <2>3. address + Len(text) < size'
      BY <1>1, <1>3
    <2>4. /\ outputPtr' >= 0 => end' \in outputPtr'..(outputPtr' + Len(text))
          /\ outputPtr' < 0 => end' \in outputPtr'..0
      BY <1>1, <1>2, <1>3 DEF JsNumbers
    <2>5. Holds(ToAddress(outputPtr), written)'
      BY <1>2, <1>3, <2>1 DEF Holds
    <2> QED
      BY <1>2, <1>3, <2>2, <2>3, <2>4, <2>5 DEF OutputHolds
  <1>6. InputHolds'
    BY <1>2 DEF MemoryInv, InputHolds, Freed
  <1> QED
    BY <1>2, <1>3, <1>4, <1>5, <1>6
       DEF MemoryInv, MessageHolds, AnswersHold, TextIsExactOrLost,
           LowCallsNeverThrow

LEMMA ConvertFailsKeepsInv ==
    ASSUME MemoryInv, NEW message \in Messages, NEW address \in Addresses,
           ConvertFails(message, address)
    PROVE  MemoryInv'
  <1> USE Constants
  <1>1. /\ message \in Seq(Symbols) /\ message # <<>>
        /\ message \in Seq(Symbols \cup {0})
    BY LinearMemoryAssumption
  <1>2. /\ at = "converting" /\ at' = "failing"
        /\ CanAllocate(address, Len(message), inputBlock \cup kept)
        /\ memory' = Stored(address, message)
        /\ errorBlock' = ErrorBlock(message, address)
        /\ size' = Grown(address + Len(message))
        /\ written' = message /\ outputPtr' = ToInt32(address)
        /\ UNCHANGED <<kept, inputPtr, inputBytes, end, inputBlock, answer,
                       calls>>
    BY DEF ConvertFails
  <1>3. /\ memory' \in [Addresses -> Symbols \cup {0}]
        /\ \A i \in 1..Len(message) : memory'[address + i - 1] = message[i]
        /\ BelowHeapIsZero'
        /\ size' \in Base..Full /\ size' >= size
        /\ address + Len(message) <= size'
        /\ Block(address, Len(message)) \subseteq Base..(size' - 1)
        /\ outputPtr' \in JsNumbers
        /\ ToAddress(outputPtr') = address
    BY <1>1, <1>2, ModuleWrites
  <1>4. MemoryTypeOK'
    <2>1. (inputBlock \cup kept \cup errorBlock \subseteq Base..(size - 1))'
      BY <1>2, <1>3 DEF MemoryInv, MemoryTypeOK, ErrorBlock
    <2> QED
      BY <1>1, <1>2, <1>3, <2>1
         DEF MemoryInv, MemoryTypeOK, CallPoints, Texts
  <1>5. MessageHolds'
    <2>1. Holds(ToAddress(outputPtr), written)'
      BY <1>2, <1>3 DEF Holds
    <2> QED
      BY <1>2, <1>3, <2>1 DEF MessageHolds
  <1>6. InputHolds'
    BY <1>2 DEF MemoryInv, InputHolds, Freed
  <1> QED
    BY <1>2, <1>3, <1>4, <1>5, <1>6
       DEF MemoryInv, OutputHolds, AnswersHold, TextIsExactOrLost,
           LowCallsNeverThrow

\* What the steps after convert start from.
LEMMA Reading ==
    ASSUME MemoryInv
    PROVE  /\ outputPtr \in JsNumbers /\ end \in (-Half)..Full
           /\ size \in Base..Full /\ size \in Nat /\ size > 0
           /\ written \in Seq(Symbols) /\ written \in Seq(Nat)
           /\ Len(written) \in Nat
           /\ memory[0] = 0 /\ <<>> \in Seq(Nat)
           /\ outputPtr >= 0 => ToAddress(outputPtr) = outputPtr
           /\ at = "scanning" => OutputHolds
  <1> USE Constants
  <1>1. written \in Seq(Symbols) /\ written \in Seq(Nat)
    <2>1. written \in Seq(Symbols)
      BY DEF MemoryInv, MemoryTypeOK, Texts
    <2> QED
      BY <2>1, SeqMonotonic, LinearMemoryAssumption
  <1>2. memory[0] = 0
    BY DEF MemoryInv, BelowHeapIsZero
  <1> QED
    BY <1>1, <1>2, EmptySeq
       DEF MemoryInv, MemoryTypeOK, JsNumbers, ToAddress

\* Where the scan stops.
LEMMA TerminatorIsFound ==
    ASSUME MemoryInv, at = "scanning"
    PROVE  /\ WithinBytes
           /\ outputPtr >= 0 =>
                 /\ end >= 0
                 /\ AtZero <=> end = outputPtr + Len(written)
           /\ outputPtr < 0 => (AtZero <=> end = 0)
  <1> USE Constants
  <1>1. /\ ToAddress(outputPtr) + Len(written) < size
        /\ Holds(ToAddress(outputPtr), written)
        /\ memory[ToAddress(outputPtr) + Len(written)] = 0
        /\ outputPtr >= 0 => end \in outputPtr..(outputPtr + Len(written))
        /\ outputPtr < 0 => end \in outputPtr..0
    BY DEF MemoryInv, OutputHolds
  <1>2. CASE outputPtr >= 0
    <2>1. end \in outputPtr..(outputPtr + Len(written))
          /\ outputPtr \in Nat /\ end \in Nat
          /\ ToAddress(outputPtr) = outputPtr
      BY <1>1, <1>2, Reading DEF JsNumbers
    <2>2. ASSUME end < outputPtr + Len(written) PROVE memory[end] # 0
      <3>1. end - outputPtr + 1 \in 1..Len(written)
            /\ outputPtr + (end - outputPtr + 1) - 1 = end
        BY <2>1, <2>2, Reading
      <3>2. memory[end] = written[end - outputPtr + 1]
        BY <1>1, <2>1, <3>1 DEF Holds
      <3>3. written[end - outputPtr + 1] \in Symbols
        BY <3>1, Reading, ElementOfSeq
      <3> QED
        BY <3>2, <3>3, LinearMemoryAssumption
    <2> QED
      BY <1>1, <1>2, <2>1, <2>2, Reading DEF WithinBytes, AtZero
  <1>3. CASE outputPtr < 0
    BY <1>1, <1>3, Reading DEF WithinBytes, AtZero, JsNumbers
  <1> QED
    BY <1>2, <1>3, Reading DEF JsNumbers

LEMMA ScanKeepsInv ==
    ASSUME MemoryInv, Scan
    PROVE  MemoryInv'
  <1> USE Constants
  <1>1. /\ at = "scanning" /\ WithinBytes /\ ~AtZero
        /\ end' = end + 1
        /\ UNCHANGED <<memory, size, kept, errorBlock, inputPtr, inputBytes,
                       outputPtr, written, inputBlock, at, answer, calls>>
    BY DEF Scan, NextEnd, moduleVars
  <1>2. /\ outputPtr >= 0 => end \in outputPtr..(outputPtr + Len(written))
        /\ outputPtr < 0 => end \in outputPtr..0
    BY <1>1 DEF MemoryInv, OutputHolds
  <1>3. /\ outputPtr >= 0 => end' \in outputPtr..(outputPtr + Len(written))
        /\ outputPtr < 0 => end' \in outputPtr..0
    BY <1>1, <1>2, TerminatorIsFound, Reading DEF JsNumbers
  <1>4. end' \in (-Half)..Full
    BY <1>1, Reading DEF WithinBytes
  <1>5. MemoryTypeOK'
    BY <1>1, <1>4 DEF MemoryInv, MemoryTypeOK
  <1>6. OutputHolds'
    BY <1>1, <1>3 DEF MemoryInv, OutputHolds, Holds
  <1> QED
    BY <1>1, <1>5, <1>6
       DEF MemoryInv, BelowHeapIsZero, InputHolds, Freed, MessageHolds,
           AnswersHold, TextIsExactOrLost, LowCallsNeverThrow

LEMMA EndScanKeepsInv ==
    ASSUME MemoryInv, EndScan
    PROVE  MemoryInv'
  <1> USE Constants
  <1> DEFINE text == Slice(outputPtr, end)
  <1>1. at = "scanning" /\ AtZero /\ Finish("text", text)
    BY TerminatorIsFound DEF EndScan
  <1>2. CASE outputPtr >= 0
    <2>1. end = outputPtr + Len(written) /\ outputPtr \in Nat
          /\ ToAddress(outputPtr) = outputPtr
      BY <1>1, <1>2, TerminatorIsFound, Reading DEF JsNumbers
    <2>2. outputPtr + Len(written) <= size /\ Holds(outputPtr, written)
      BY <1>1, <2>1, Reading DEF MemoryInv, OutputHolds
    <2>3. text = written
      BY <2>1, <2>2, SliceOfHeld, Reading
    <2>4. /\ Finish("text", written) /\ written \in Seq(Nat)
          /\ at # "returned"
      BY <1>1, <2>3, Reading
    <2> HIDE DEF text
    <2> QED
      BY <2>4, FinishKeepsInv
  <1>3. CASE outputPtr < 0
    <2>1. end = 0
      BY <1>1, <1>3, TerminatorIsFound
    <2>2. text = <<>>
      BY <1>3, <2>1, SliceOfNothing, Reading DEF Clamp, JsNumbers
    <2>3. /\ Finish("text", <<>>) /\ <<>> \in Seq(Nat)
          /\ at # "returned" /\ ~(outputPtr >= 0)
      BY <1>1, <1>3, <2>2, Reading DEF JsNumbers
    <2> HIDE DEF text
    <2> QED
      BY <2>3, FinishKeepsInv
  <1> QED
    BY <1>2, <1>3, Reading DEF JsNumbers

LEMMA ReturnErrorKeepsInv ==
    ASSUME MemoryInv, ReturnError
    PROVE  MemoryInv'
  <1> USE Constants
  <1> DEFINE text == Slice(outputPtr, MessageEnd)
  <1>1. at = "failing"
        /\ ToAddress(outputPtr) + Len(written) <= size
        /\ Holds(ToAddress(outputPtr), written)
    BY DEF ReturnError, MemoryInv, MessageHolds
  <1>2. CASE InBuffer(outputPtr, Len(written))
    <2>1. outputPtr \in Nat /\ ToAddress(outputPtr) = outputPtr
      BY <1>2, Reading DEF InBuffer, JsNumbers
    <2>2. text = written
      BY <1>1, <2>1, SliceOfHeld, Reading DEF MessageEnd
    <2>3. Finish("error", text)
      BY <1>2 DEF ReturnError
    <2> HIDE DEF text
    <2> QED
      BY <1>1, <2>2, <2>3, FinishKeepsInv, Reading
  <1>3. CASE ~InBuffer(outputPtr, Len(written))
    <2>1. outputPtr < 0
      BY <1>1, <1>3, Reading DEF InBuffer, JsNumbers
    <2>2. Finish("range", <<>>)
      BY <1>3 DEF ReturnError
    <2> QED
      BY <1>1, <2>1, <2>2, FinishKeepsInv, Reading
  <1> QED
    BY <1>2, <1>3

-----------------------------------------------------------------------------
\* The invariant holds wherever the module puts its blocks.
THEOREM MemoryCorrect == Spec => []MemoryInv
  <1>1. MemoryInv /\ [Next]_vars => MemoryInv'
    <2> SUFFICES ASSUME MemoryInv, [Next]_vars PROVE MemoryInv'
      OBVIOUS
    <2>1. ASSUME NEW bytes \in Inputs, NEW address \in Addresses,
                 Execute(bytes, address)
          PROVE  MemoryInv'
      BY <2>1, ExecuteKeepsInv
    <2>2. CASE WriteBytes \/ WriteThrows
      BY <2>2, WritingKeepsInv
    <2>3. ASSUME NEW address \in Addresses, NEW text \in Outputs,
                 Convert(text, address)
          PROVE  MemoryInv'
      BY <2>3, ConvertKeepsInv
    <2>4. ASSUME NEW address \in Addresses, NEW message \in Messages,
                 ConvertFails(message, address)
          PROVE  MemoryInv'
      BY <2>4, ConvertFailsKeepsInv
    <2>5. CASE ConvertTraps
      BY <2>5, FinishKeepsInv, Reading DEF ConvertTraps
    <2>6. CASE Scan
      BY <2>6, ScanKeepsInv
    <2>7. CASE EndScan
      BY <2>7, EndScanKeepsInv
    <2>8. CASE ReturnError
      BY <2>8, ReturnErrorKeepsInv
    <2>9. CASE UNCHANGED vars
      BY <2>9
         DEF vars, moduleVars, localVars, MemoryInv, MemoryTypeOK,
             BelowHeapIsZero, InputHolds, Freed, OutputHolds, MessageHolds,
             Holds, AnswersHold, TextIsExactOrLost,
             LowCallsNeverThrow
    <2> QED
      BY <2>1, <2>2, <2>3, <2>4, <2>5, <2>6, <2>7, <2>8, <2>9
         DEF Next, Step
  <1> QED
    BY <1>1, InitEstablishesMemoryInv, PTL DEF Spec

\* The memory, its blocks and execute's variables keep their types.
THEOREM MemoryTypeCorrect == Spec => []MemoryTypeOK
  BY MemoryCorrect, PTL DEF MemoryInv

\* A text is read as it was written, or lost beyond half of the memory; a
\* message is read as it was written.
THEOREM TextCorrect == Spec => []TextIsExactOrLost
  BY MemoryCorrect, PTL DEF MemoryInv, AnswersHold

\* The terminator is always found, and low pointers never throw.
THEOREM LowCallsCorrect == Spec => []LowCallsNeverThrow
  BY MemoryCorrect, PTL DEF MemoryInv, AnswersHold

\* The input's block is free again after every call.
THEOREM InputGivenBackCorrect == Spec => []InputGivenBack
  <1>1. MemoryInv => InputGivenBack
    BY DEF MemoryInv, InputHolds, InputGivenBack
  <1> QED
    BY <1>1, MemoryCorrect, PTL

=============================================================================
