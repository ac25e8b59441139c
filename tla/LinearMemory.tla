---------------------------- MODULE LinearMemory ----------------------------
(***************************************************************************)
(* How execute and a tool's module hand texts to each other: by address,   *)
(* in the module's memory.  ToolRuntime says who owns which block; this    *)
(* module says what is read and written, byte by byte.                     *)
(*                                                                         *)
(* WebAssembly's addresses are unsigned, but an i32 that comes out of an   *)
(* export is a signed number in JavaScript: from half of the address space *)
(* on, a pointer is negative.  A session never gives its outputs back, so  *)
(* a long one gets there.                                                  *)
(***************************************************************************)
EXTENDS Integers, Sequences

CONSTANTS Half,        \* half of the address space; 2^31 for wasm32
          Base,        \* where the heap begins, after stack and statics
          Page,        \* the unit in which the memory grows
          Symbols,     \* the bytes of a text; none is 0
          Inputs,      \* texts given to the tool
          Outputs,     \* texts it converts them to
          Messages,    \* messages of its errors
          MaxCalls,    \* bound on the number of calls
          Null

Full == 2 * Half
Addresses == 0..(Full - 1)
JsNumbers == (-Half)..(Half - 1)

CallPoints == {"returned", "writing", "converting", "scanning", "failing"}
Texts == Seq(Symbols)
\* What execute returned or threw.  low: no pointer was negative.
Answers == [kind : {"text", "error", "range", "unterminated", "trap"},
            text : Seq(Nat), written : Texts, low : BOOLEAN]

ASSUME LinearMemoryAssumption ==
    /\ Half \in Nat \ {0}
    /\ Page \in Nat \ {0}
    /\ Base \in 1..Full
    /\ Base % Page = 0 /\ Full % Page = 0
    /\ Symbols \subseteq Nat \ {0}
    /\ Inputs \cup Outputs \subseteq Seq(Symbols)
    /\ Messages \subseteq Seq(Symbols) \ {<<>>}
    /\ MaxCalls \in Nat
    /\ Null \notin Answers

VARIABLES memory,       \* the bytes, 0 where none was written
          size,         \* the length of memory.buffer
          inputBlock,   \* addresses allocated for the input
          kept,         \* addresses of outputs, which nobody frees
          errorBlock,   \* addresses of LAST_ERROR
          at,           \* where execute is
          inputPtr, inputBytes,   \* its local variables
          outputPtr, end,         \* the pointer, and the scan's position
          written,      \* the text the module wrote for this call
          answer,       \* how the last call ended
          calls         \* number of calls so far

moduleVars == <<memory, size, kept, errorBlock>>
localVars == <<inputPtr, inputBytes, outputPtr, end, written>>
vars == <<moduleVars, localVars, inputBlock, at, answer, calls>>

Init ==
    /\ memory = [address \in Addresses |-> 0]
    /\ size = Base
    /\ inputBlock = {}
    /\ kept = {}
    /\ errorBlock = {}
    /\ at = "returned"
    /\ inputPtr = 0
    /\ inputBytes = <<>>
    /\ outputPtr = 0
    /\ end = 0
    /\ written = <<>>
    /\ answer = Null
    /\ calls = 0

-----------------------------------------------------------------------------
(* The border between the two languages.                                    *)

ToInt32(address) == IF address >= Half THEN address - Full ELSE address
ToAddress(number) == IF number < 0 THEN number + Full ELSE number

Block(address, length) == address..(address + length - 1)

\* Where the allocator may put a block, next to the others; the memory
\* grows to hold it.
CanAllocate(address, length, others) ==
    /\ address >= Base
    /\ address + length <= Full
    /\ Block(address, length) \cap others = {}

Grown(length) ==
    IF length <= size THEN size
    ELSE ((length + Page - 1) \div Page) * Page

Stored(address, bytes) ==
    [a \in Addresses |->
        IF a \in Block(address, Len(bytes)) THEN bytes[a - address + 1]
        ELSE memory[a]]

\* new Uint8Array(memory.buffer, ptr, length) throws a RangeError otherwise.
InBuffer(ptr, length) == ptr >= 0 /\ ptr + length <= size

\* Where slice begins and ends.
Clamp(index) ==
    IF index < 0 THEN (IF size + index < 0 THEN 0 ELSE size + index)
    ELSE IF index > size THEN size ELSE index

Slice(from, to) ==
    [i \in 1..(IF Clamp(to) > Clamp(from) THEN Clamp(to) - Clamp(from) ELSE 0)
        |-> memory[Clamp(from) + i - 1]]

-----------------------------------------------------------------------------
AllocationSize(bytes) == IF bytes = <<>> THEN 1 ELSE Len(bytes)

\* execute up to writeBytes.
Execute(bytes, address) ==
    /\ at = "returned"
    /\ calls < MaxCalls
    /\ CanAllocate(address, AllocationSize(bytes), kept \cup errorBlock)
    /\ at' = "writing"
    /\ calls' = calls + 1
    /\ inputBytes' = bytes
    /\ inputPtr' = ToInt32(address)
    /\ inputBlock' = Block(address, AllocationSize(bytes))
    /\ size' = Grown(address + AllocationSize(bytes))
    /\ written' = <<>>
    /\ outputPtr' = 0
    /\ end' = 0
    /\ UNCHANGED <<memory, kept, errorBlock, answer>>

\* Fault: a pointer that is not positive is not freed.
FreedPositive ==
    IF inputPtr > 0 THEN Block(inputPtr, AllocationSize(inputBytes)) ELSE {}

Freed == Block(ToAddress(inputPtr), AllocationSize(inputBytes))

\* The call returns or throws, through its finally block.
Finish(kind, text) ==
    /\ at' = "returned"
    /\ inputBlock' = inputBlock \ Freed
    /\ answer' = [kind |-> kind, text |-> text, written |-> written,
                  low |-> inputPtr >= 0 /\ outputPtr >= 0]
    /\ UNCHANGED <<moduleVars, localVars, calls>>

WriteBytes ==
    /\ at = "writing"
    /\ InBuffer(inputPtr, Len(inputBytes))
    /\ memory' = Stored(inputPtr, inputBytes)
    /\ at' = "converting"
    /\ UNCHANGED <<size, kept, errorBlock, localVars, inputBlock, answer,
                   calls>>

WriteThrows ==
    /\ at = "writing"
    /\ ~InBuffer(inputPtr, Len(inputBytes))
    /\ Finish("range", <<>>)

CString(text) == Append(text, 0)

\* convert, for a text that converts.
Convert(text, address) ==
    /\ at = "converting"
    /\ CanAllocate(address, Len(CString(text)),
                   inputBlock \cup kept \cup errorBlock)
    /\ memory' = Stored(address, CString(text))
    /\ kept' = kept \cup Block(address, Len(CString(text)))
    /\ size' = Grown(address + Len(CString(text)))
    /\ written' = text
    /\ outputPtr' = ToInt32(address)
    /\ end' = ToInt32(address)
    /\ at' = "scanning"
    /\ UNCHANGED <<errorBlock, inputPtr, inputBytes, inputBlock, answer,
                   calls>>

\* LAST_ERROR's buffer, once it holds the message: as large as it was, grown
\* where it lies, or moved.
ErrorBlock(message, address) ==
    IF address \in errorBlock
    THEN errorBlock \cup Block(address, Len(message))
    ELSE Block(address, Len(message))

\* convert, for one that does not.
ConvertFails(message, address) ==
    /\ at = "converting"
    /\ CanAllocate(address, Len(message), inputBlock \cup kept)
    /\ \/ Block(address, Len(message)) \cap errorBlock = {}
       \/ address \in errorBlock /\ address - 1 \notin errorBlock
    /\ memory' = Stored(address, message)
    /\ errorBlock' = ErrorBlock(message, address)
    /\ size' = Grown(address + Len(message))
    /\ written' = message
    /\ outputPtr' = ToInt32(address)
    /\ at' = "failing"
    /\ UNCHANGED <<kept, inputPtr, inputBytes, end, inputBlock, answer,
                   calls>>

\* An allocation in the module fails: the panic is a trap in JavaScript.
ConvertTraps ==
    /\ at = "converting"
    /\ Finish("trap", <<>>)

-----------------------------------------------------------------------------
(* readNullTerminatedBytes.                                                 *)

\* Fault: the last byte is never looked at.
WithinBytesButLast == end < size - 1

WithinBytes == end < size

\* Fault: bytes.at(end), which counts a negative index from the back.
AtZeroFromTheBack ==
    LET index == IF end < 0 THEN size + end ELSE end IN
    index >= 0 /\ memory[index] = 0

\* bytes[end] is undefined for a negative index, and undefined is not 0.
AtZero == end >= 0 /\ memory[end] = 0

NextEnd == end + 1

Scan ==
    /\ at = "scanning"
    /\ WithinBytes
    /\ ~AtZero
    /\ end' = NextEnd
    /\ UNCHANGED <<moduleVars, inputPtr, inputBytes, outputPtr, written,
                   inputBlock, at, answer, calls>>

\* The scan is over: at a terminator, or, if there is none, at an error.
EndScan ==
    /\ at = "scanning"
    /\ WithinBytes => AtZero
    /\ IF WithinBytes THEN Finish("text", Slice(outputPtr, end))
       ELSE Finish("unterminated", <<>>)

MessageEnd == outputPtr + Len(written)

\* readLastError.
ReturnError ==
    /\ at = "failing"
    /\ IF InBuffer(outputPtr, Len(written))
       THEN Finish("error", Slice(outputPtr, MessageEnd))
       ELSE Finish("range", <<>>)

-----------------------------------------------------------------------------
Step ==
    \/ WriteBytes \/ WriteThrows
    \/ \E address \in Addresses :
          \/ \E text \in Outputs : Convert(text, address)
          \/ \E message \in Messages : ConvertFails(message, address)
    \/ ConvertTraps
    \/ Scan \/ EndScan
    \/ ReturnError

Next ==
    \/ \E bytes \in Inputs, address \in Addresses : Execute(bytes, address)
    \/ Step

Spec == Init /\ [][Next]_vars
-----------------------------------------------------------------------------
(* Properties.                                                              *)

\* The memory, its blocks and execute's variables keep their types.
MemoryTypeOK ==
    /\ memory \in [Addresses -> Symbols \cup {0}]
    /\ size \in Base..Full
    /\ inputBlock \cup kept \cup errorBlock \subseteq Base..(size - 1)
    /\ at \in CallPoints
    /\ {inputPtr, outputPtr} \subseteq JsNumbers
    /\ inputBytes \in Inputs \cup {<<>>}
    /\ end \in (-Half)..Full
    /\ written \in Texts
    /\ answer \in Answers \cup {Null}
    /\ calls \in 0..MaxCalls

\* What a call returns or throws is what the module wrote, byte for byte: a
\* text wherever it lies below half of the memory, and an error's message
\* always, since beyond half another error takes its place.  A text from above
\* is the empty one, as a success, and never bytes of something else.
TextIsExactOrLost ==
    answer # Null =>
        /\ answer.kind = "text" =>
              /\ answer.low => answer.text = answer.written
              /\ ~answer.low => answer.text \in {<<>>, answer.written}
        /\ answer.kind = "error" => answer.text = answer.written

\* The scan finds the terminator of every output, one in the last byte of
\* the memory included; and nothing throws for its address while pointers
\* are positive.
LowCallsNeverThrow ==
    answer # Null =>
        /\ answer.kind # "unterminated"
        /\ answer.kind = "range" => ~answer.low

\* However a call ends, the block of its input is free again, although its
\* address passed through a signed number.
InputGivenBack == at = "returned" => inputBlock = {}
=============================================================================
