---------------------------- MODULE ToolRuntime ----------------------------
(***************************************************************************)
(* One session of a WASM tool: WasmToolRuntimeAdapter.execute on one side  *)
(* of the ABI, the Rust tool's exports on the other, and the linear memory *)
(* both allocate from.  The eight tools share the ABI line for line.       *)
(*                                                                         *)
(* execute is synchronous, so its calls never overlap.  What goes wrong is *)
(* in the middle of one: an allocation fails, the panic becomes a trap,    *)
(* and nothing on the Rust side is dropped or unlocked.  The JavaScript    *)
(* side sees an exception and goes on using the session.                   *)
(***************************************************************************)
EXTENDS Naturals, Sequences, FiniteSetsExt

CONSTANTS Inputs,        \* texts the user runs the tool on
          Convertible,   \* those the converter accepts
          InputLength,   \* their lengths in bytes
          OutputLength,  \* the lengths of the converted texts
          ErrorLength,   \* the lengths of the error messages
          MemoryLimit,   \* bytes the memory may grow to
          MaxCalls,      \* bound on the number of calls
          Null

VARIABLES call,           \* the call under way
          answers,        \* how the earlier calls ended
          blocks,         \* what is allocated, the error buffer apart
          errorText,      \* LAST_ERROR: the inputs whose messages it holds
          errorCapacity,  \* the bytes LAST_ERROR has allocated
          locked          \* its mutex is held though nobody runs

vars == <<call, answers, blocks, errorText, errorCapacity, locked>>

Roles == {"input", "copy", "result", "output"}
CallPoints == {"entered", "read", "converted"}
CallRecords == [number : 1..MaxCalls, input : Inputs, at : CallPoints]
Blocks == [call : 1..MaxCalls, role : Roles, size : Nat]
\* What execute returned or threw; text holds the inputs it was made of.
Answers == [input : Inputs, kind : {"text", "error", "trap"},
            text : Seq(Inputs)]

ASSUME ToolRuntimeAssumption ==
    /\ Convertible \subseteq Inputs
    /\ InputLength \in [Inputs -> Nat]
    /\ OutputLength \in [Inputs -> Nat]
    /\ ErrorLength \in [Inputs -> Nat \ {0}]
    /\ MemoryLimit \in Nat
    /\ MaxCalls \in Nat
    /\ Null \notin CallRecords

-----------------------------------------------------------------------------
(* Memory.                                                                  *)

Block(number, role, size) ==
    [call |-> number, role |-> role, size |-> size]

Used == errorCapacity + MapThenSumSet(LAMBDA b : b.size, blocks)

\* An allocation this large may succeed.  It may fail all the same: the
\* memory is fragmented, or the browser refuses to let it grow.
Fits(size) == Used + size <= MemoryLimit

\* How Vec<u8> grows.
Larger(m, n) == IF m >= n THEN m ELSE n

GrownCapacity(capacity, needed) ==
    IF needed <= capacity THEN capacity
    ELSE Larger(8, Larger(2 * capacity, needed))

InputAllocationSize(input) == Larger(1, InputLength[input])

\* Fault: the length is passed where the size is expected.
FreedSizeUnpadded(input) == InputLength[input]

FreedSize(input) == InputAllocationSize(input)

-----------------------------------------------------------------------------
Init ==
    /\ call = Null
    /\ answers = <<>>
    /\ blocks = {}
    /\ errorText = <<>>
    /\ errorCapacity = 0
    /\ locked = FALSE

Answer(input, kind, text) ==
    answers' = Append(answers, [input |-> input, kind |-> kind,
                                text |-> text])

\* execute returns or throws, through its finally block.  wasm_free with
\* another size would not be the deallocation of that block.
Finish(kind, text, live) ==
    /\ call' = Null
    /\ blocks' = live \ {Block(call.number, "input", FreedSize(call.input))}
    /\ Answer(call.input, kind, text)

CanCall == call = Null /\ Len(answers) < MaxCalls

\* wasm_alloc, and the bytes written into what it returned.
Execute(input) ==
    /\ CanCall
    /\ Fits(InputAllocationSize(input))
    /\ LET number == Len(answers) + 1 IN
          /\ call' = [number |-> number, input |-> input, at |-> "entered"]
          /\ blocks' = blocks \cup {Block(number, "input",
                                          InputAllocationSize(input))}
    /\ UNCHANGED <<answers, errorText, errorCapacity, locked>>

\* wasm_alloc traps: it never returns 0, and the try block is not entered.
AllocTraps(input) ==
    /\ CanCall
    /\ Answer(input, "trap", <<>>)
    /\ UNCHANGED <<call, blocks, errorText, errorCapacity, locked>>

At(point) == call # Null /\ call.at = point

\* read_input: a String of its own.
ReadInput ==
    /\ At("entered")
    /\ Fits(InputLength[call.input])
    /\ call' = [call EXCEPT !.at = "read"]
    /\ blocks' = blocks \cup {Block(call.number, "copy",
                                    InputLength[call.input])}
    /\ UNCHANGED <<answers, errorText, errorCapacity, locked>>

ResultLength(input) ==
    IF input \in Convertible THEN OutputLength[input] ELSE ErrorLength[input]

\* The converter's String, or the message format_error makes of its error.
ConvertText ==
    /\ At("read")
    /\ Fits(ResultLength(call.input))
    /\ call' = [call EXCEPT !.at = "converted"]
    /\ blocks' = blocks \cup {Block(call.number, "result",
                                    ResultLength(call.input))}
    /\ UNCHANGED <<answers, errorText, errorCapacity, locked>>

\* Fault: the result's String is forgotten like the output.
KeptWithResult ==
    {b \in blocks : ~(b.call = call.number /\ b.role = "copy")}

\* What is left after Rust dropped the locals of convert.
Kept ==
    {b \in blocks : ~(b.call = call.number /\ b.role \in {"copy", "result"})}

\* Fault: a success leaves LAST_ERROR alone.
ClearLastErrorSkipped == UNCHANGED errorText

ClearLastError == ~locked /\ errorText' = <<>>

OutputBlock(number, input) ==
    Block(number, "output",
          GrownCapacity(OutputLength[input], OutputLength[input] + 1))

\* clear_last_error, allocate_c_string, and the text read by JavaScript.
ReturnText ==
    /\ At("converted")
    /\ call.input \in Convertible
    /\ ClearLastError
    /\ LET output == OutputBlock(call.number, call.input) IN
          /\ Fits(output.size)
          /\ Finish("text", <<call.input>>, Kept \cup {output})
    /\ UNCHANGED <<errorCapacity, locked>>

\* Fault: set_last_error does not clear what was there.
SetLastErrorAppended(input) == Append(errorText, input)

SetLastError(input) == <<input>>

\* set_last_error, and the message read by readLastError.
ReturnError ==
    /\ At("converted")
    /\ call.input \notin Convertible
    /\ ~locked
    /\ errorText' = SetLastError(call.input)
    /\ errorCapacity' = GrownCapacity(errorCapacity, ErrorLength[call.input])
    /\ Fits(errorCapacity' - errorCapacity)
    /\ Finish("error", errorText', Kept)
    /\ UNCHANGED locked

\* An allocation fails, or the mutex is held for ever: a panic, which aborts.
ConvertTraps ==
    /\ call # Null
    /\ Finish("trap", <<>>, blocks)
    /\ UNCHANGED <<errorText, errorCapacity, locked>>

\* LAST_ERROR was cleared and cannot grow: the trap leaves the mutex held.
SetLastErrorTraps ==
    /\ At("converted")
    /\ call.input \notin Convertible
    /\ ~locked
    /\ errorCapacity < ErrorLength[call.input]
    /\ locked' = TRUE
    /\ errorText' = <<>>
    /\ Finish("trap", <<>>, blocks)
    /\ UNCHANGED errorCapacity

\* After clear_last_error the output cannot be copied.
AllocateCStringTraps ==
    /\ At("converted")
    /\ call.input \in Convertible
    /\ ClearLastError
    /\ Finish("trap", <<>>, blocks)
    /\ UNCHANGED <<errorCapacity, locked>>

Next ==
    \/ \E input \in Inputs : Execute(input) \/ AllocTraps(input)
    \/ ReadInput \/ ConvertText
    \/ ReturnText \/ ReturnError
    \/ ConvertTraps \/ SetLastErrorTraps \/ AllocateCStringTraps

Spec == Init /\ [][Next]_vars
-----------------------------------------------------------------------------
(* Properties.                                                              *)

\* The session's memory, its error buffer and the call under way keep their
\* types; LAST_ERROR holds one message at most.
TypeOK ==
    /\ call \in CallRecords \cup {Null}
    /\ answers \in Seq(Answers)
    /\ Len(answers) <= MaxCalls
    /\ blocks \subseteq Blocks
    /\ errorText \in {<<>>} \cup {<<input>> : input \in Inputs}
    /\ errorCapacity \in Nat
    /\ locked \in BOOLEAN

\* Whatever way a call ended, its input buffer was given back with the very
\* size it was allocated with, the empty text included.
InputFreed ==
    \A b \in blocks :
        b.role = "input" => call # Null /\ b.call = call.number

LeftBy(number) == {b \in blocks : b.call = number}

\* What a call that ended leaves allocated, for the rest of the session: the
\* output of a conversion, whose pointer execute never frees, and nothing
\* else; nothing of a text that does not convert; of a call that trapped, at
\* most the Strings that Rust did not drop.
OnlyOutputsStay ==
    \A number \in DOMAIN answers :
        LET answer == answers[number] IN
        /\ answer.kind = "text" =>
              LeftBy(number) = {OutputBlock(number, answer.input)}
        /\ answer.kind = "error" => LeftBy(number) = {}
        /\ answer.kind = "trap" =>
              \A b \in LeftBy(number) : b.role \in {"copy", "result"}

\* However many messages it held, LAST_ERROR's buffer is no larger than
\* twice the longest of them.
ErrorBufferBounded ==
    errorCapacity > 8 =>
        \E input \in Inputs : errorCapacity <= 2 * ErrorLength[input]

\* An error message is about the text of its own call, whichever calls
\* failed, trapped or succeeded in the session before.
ErrorIsOfThisCall ==
    \A i \in DOMAIN answers :
        answers[i].kind = "error" => answers[i].text = <<answers[i].input>>

\* A trap inside set_last_error leaves the mutex held: from then on every
\* call of the session traps too, and none shows the message lost with it,
\* though the workbench goes on offering the session as configured.
LockedNeverAnswers ==
    locked => answers # <<>> /\ answers[Len(answers)].kind = "trap"
=============================================================================
