--------------------------------- MODULE Cli --------------------------------
(***************************************************************************)
(* bin/compcol.rs, run(): one invocation of the command line tool on an    *)
(* input file.  Everything it does to the file system is a step of its     *)
(* own, any of them may fail, the process may be killed between any two,   *)
(* and somebody else may create the output file meanwhile.                 *)
(*                                                                         *)
(* Output is counted: the codecs hand it over in order, so how much of it  *)
(* is in the file tells what is in the file.                               *)
(***************************************************************************)
EXTENDS DecoderCodec

CONSTANTS
    Atom,      \* output room an encoder's next atomic step can demand
    Flushes,   \* the format has a sync marker (not used by the tool)
    BUF,       \* BUF_SIZE, of both buffers
    MaxExtra   \* bound: units that follow the stream in the input

ASSUME BufferAssumption == BUF \in Nat \ {0} /\ MaxExtra \in Nat

(* A whole atomic step of an encoder fits a buffer of 64 KiB.              *)
ASSUME AtomFits == Atom \in Nat \ {0} /\ Flushes \in BOOLEAN /\ Atom <= BUF

E == INSTANCE EncoderCodec

VARIABLES
    args,      \* the command line
    size,      \* bytes, or units of an encoded stream, in the input file
    input,     \* the input file is there
    existed,   \* the output file was there when the tool was started
    output,    \* that file: absent, old (not touched), truncated or new
    ours,      \* output_path: there is a file to remove on failure
    phase,     \* the next thing run() does; the exit status at the end
    chunk,     \* units of in_buf not yet given to the codec
    read,      \* units read from the input
    codec,     \* the encoder or decoder
    made,      \* output handed to the BufWriter
    disk,      \* output that has reached the file
    trouble    \* an I/O operation or the codec has failed

vars == <<args, size, input, existed, output, ours, phase, chunk, read, codec, made, disk, trouble>>

Args == [decompress : BOOLEAN, force : BOOLEAN, keep : BOOLEAN,
         target : {"stdout", "named", "derived"}, known : BOOLEAN]

Exits == {"ok", "usage", "io", "killed"}

Init ==
    /\ args \in Args
    /\ size \in 0..(StreamLen + MaxExtra)
    /\ input = TRUE
    /\ existed \in BOOLEAN
    /\ output = IF existed THEN "old" ELSE "absent"
    /\ ours = FALSE
    /\ phase = "open"
    /\ chunk = 0
    /\ read = 0
    /\ codec \in IF args.decompress THEN NewDecoders ELSE {E!NewEncoder}
    /\ made = 0
    /\ disk = 0
    /\ trouble = FALSE

InPlace == args.target = "derived"

(* An error from the stream removes what this run created, if it did.      *)
StreamFails ==
    /\ phase' = "cleanup"
    /\ trouble' = TRUE

-----------------------------------------------------------------------------
(* Before the stream.                                                      *)

OpenInput ==
    /\ phase = "open"
    /\ \/ phase' = "resolve" /\ UNCHANGED trouble
       \/ phase' = "io" /\ trouble' = TRUE
    /\ UNCHANGED <<args, size, input, existed, output, ours, chunk, read, codec, made, disk>>

(* The format is given or detected, and gives the output its name: either  *)
(* may be a usage error.  --force only then looks whether the file exists. *)
Resolve ==
    /\ phase = "resolve"
    /\ \/ phase' = "usage" /\ UNCHANGED <<ours, trouble>>
       \/ phase' = "io" /\ trouble' = TRUE /\ UNCHANGED ours
       \/ /\ phase' = IF args.target = "stdout" THEN "lookup" ELSE "create"
          /\ ours' = (args.target # "stdout" /\ ~(args.force /\ output # "absent"))
          /\ UNCHANGED trouble
    /\ UNCHANGED <<args, size, input, existed, output, chunk, read, codec, made, disk>>

(* Bug: an existing file is seen only by an earlier check, not by the open.*)
Overwrites == TRUE

MayCreate == args.force \/ output = "absent"

(* Without --force the file is created exclusively; with it, truncated.    *)
Create ==
    /\ phase = "create"
    /\ \/ /\ MayCreate
          /\ phase' = "lookup"
          /\ output' = IF output = "absent" THEN "new" ELSE "truncated"
          /\ UNCHANGED <<ours, trouble>>
       \/ /\ ~MayCreate
          /\ phase' = "usage"
          /\ UNCHANGED <<output, ours, trouble>>
       \/ /\ phase' = "io"
          /\ trouble' = TRUE
          /\ UNCHANGED <<output, ours>>
    /\ UNCHANGED <<args, size, input, existed, chunk, read, codec, made, disk>>

(* An unknown algorithm is noticed only now.                               *)
Lookup ==
    /\ phase = "lookup"
    /\ phase' = IF args.known THEN "stream" ELSE "usage"
    /\ UNCHANGED <<args, size, input, existed, output, ours, chunk, read, codec, made, disk, trouble>>

-----------------------------------------------------------------------------
(* stream_encode and stream_decode.                                        *)

(* write_all into the BufWriter, which may pass any part on to the file.   *)
Write(n) ==
    /\ made' = made + n
    /\ disk' \in disk..(made + n)

(* A read gives any part of what is left; none is the end of the input.    *)
Read ==
    /\ phase = "stream"
    /\ chunk = 0
    /\ \/ \E n \in 1..BUF :
            /\ read + n <= size
            /\ chunk' = n
            /\ read' = read + n
            /\ UNCHANGED <<phase, trouble>>
       \/ /\ read = size
          /\ phase' = IF args.decompress THEN "drain" ELSE "finish"
          /\ UNCHANGED <<chunk, read, trouble>>
       \/ StreamFails /\ UNCHANGED <<chunk, read>>
    /\ UNCHANGED <<args, size, input, existed, output, ours, codec, made, disk>>

(* InputEmpty and StreamEnd leave the rest of the buffer; OutputFull goes  *)
(* on with it.                                                             *)
Rest(k, status) == IF status = "OutputFull" THEN chunk - k ELSE 0

Encode ==
    /\ phase = "stream" /\ chunk > 0 /\ ~args.decompress
    /\ \E r \in E!EncodeOutcomes(codec, chunk, BUF) :
         /\ codec' = r.enc
         /\ Write(Len(r.out))
         /\ chunk' = Rest(r.consumed, r.status)
    /\ UNCHANGED <<args, size, input, existed, output, ours, phase, read, trouble>>

Decode ==
    /\ phase = "stream" /\ chunk > 0 /\ args.decompress
    /\ \E r \in DecodeOutcomes(codec, chunk, BUF) :
         /\ codec' = r.dec
         /\ Write(Len(r.out))
         /\ chunk' = Rest(r.consumed, r.status)
    /\ UNCHANGED <<args, size, input, existed, output, ours, phase, read, trouble>>

(* Bug: the decoder is finished as soon as the input is.                   *)
FinishAtOnce(r) == "finish"

(* Empty decode calls until one writes nothing.                            *)
AfterDrain(r) == IF r.out = << >> THEN "finish" ELSE "drain"

Drain ==
    /\ phase = "drain"
    /\ \E r \in DecodeOutcomes(codec, 0, BUF) :
         /\ codec' = r.dec
         /\ Write(Len(r.out))
         /\ phase' = AfterDrain(r)
    /\ UNCHANGED <<args, size, input, existed, output, ours, chunk, read, trouble>>

(* Bug: the writer is dropped without a flush, its errors with it.         *)
FlushForgotten == "remove"

AfterStream == "flush"

(* Bug: a finish that gets nothing done counts as the end of the stream.   *)
StallEnds(r) == "flush"

AfterStall(r) == "cleanup"

(* The calls of finish, until the end of the stream or a stall.            *)
AfterFinish(r) ==
    IF r.status = "StreamEnd" THEN AfterStream
    ELSE IF r.out = << >> THEN AfterStall(r) ELSE "finish"

FinishEncoder ==
    /\ phase = "finish" /\ ~args.decompress
    /\ \E r \in E!FinishOutcomes(codec, BUF) :
         /\ codec' = r.enc
         /\ Write(Len(r.out))
         /\ phase' = AfterFinish(r)
    /\ UNCHANGED <<args, size, input, existed, output, ours, chunk, read, trouble>>

(* A strict decoder's finish is an error when it is not the end.           *)
FinishDecoder ==
    /\ phase = "finish" /\ args.decompress
    /\ \E r \in FinishOutcomes(codec, BUF) :
         /\ codec' = r.dec
         /\ IF r.ok \/ ~r.dec.strict
            THEN Write(Len(r.out)) /\ phase' = AfterFinish(r)
            ELSE UNCHANGED <<made, disk>> /\ phase' = "cleanup"
    /\ UNCHANGED <<args, size, input, existed, output, ours, chunk, read, trouble>>

(* A codec error, or a write_all that fails.                               *)
StreamError ==
    /\ phase \in {"drain", "finish"} \/ (phase = "stream" /\ chunk > 0)
    /\ StreamFails
    /\ disk' \in disk..made
    /\ UNCHANGED <<args, size, input, existed, output, ours, chunk, read, codec, made>>

-----------------------------------------------------------------------------
(* After the stream.                                                       *)

(* Bug: whatever is at the output path is removed.                         *)
AnyOutput == args.target # "stdout"

Removable == ours

(* The writer is dropped (which writes what it can), the file removed if   *)
(* it is this run's, and an error of that ignored.                         *)
Cleanup ==
    /\ phase = "cleanup"
    /\ disk' \in disk..made
    /\ \/ Removable /\ output' = "absent"
       \/ UNCHANGED output
    /\ phase' = "io"
    /\ UNCHANGED <<args, size, input, existed, ours, chunk, read, codec, made, trouble>>

(* A flush that fails ends the run with the output as it is.               *)
Flush ==
    /\ phase = "flush"
    /\ \/ disk' = made /\ phase' = "remove" /\ UNCHANGED trouble
       \/ disk' \in disk..made /\ phase' = "io" /\ trouble' = TRUE
    /\ UNCHANGED <<args, size, input, existed, output, ours, chunk, read, codec, made>>

RemoveInput ==
    /\ phase = "remove"
    /\ IF InPlace /\ ~args.keep
       THEN \/ input' = FALSE /\ phase' = "ok" /\ UNCHANGED trouble
            \/ phase' = "io" /\ trouble' = TRUE /\ UNCHANGED input
       ELSE phase' = "ok" /\ UNCHANGED <<input, trouble>>
    /\ UNCHANGED <<args, size, existed, output, ours, chunk, read, codec, made, disk>>

-----------------------------------------------------------------------------
(* The process may be killed, losing what is buffered.                     *)
Killed ==
    /\ phase \notin Exits
    /\ phase' = "killed"
    /\ UNCHANGED <<args, size, input, existed, output, ours, chunk, read, codec, made, disk, trouble>>

(* Another process creates the output file before this one opens it.       *)
SomebodyCreates ==
    /\ phase \in {"open", "resolve", "create"}
    /\ output = "absent"
    /\ output' = "old"
    /\ UNCHANGED <<args, size, input, existed, ours, phase, chunk, read, codec, made, disk, trouble>>

Next ==
    \/ OpenInput \/ Resolve \/ Create \/ Lookup
    \/ Read \/ Encode \/ Decode \/ Drain \/ FinishEncoder \/ FinishDecoder \/ StreamError
    \/ Cleanup \/ Flush \/ RemoveInput
    \/ Killed \/ SomebodyCreates

Spec == Init /\ [][Next]_vars

-----------------------------------------------------------------------------
(* All the output there is: the plaintext, or a token per byte and one for *)
(* the trailer.                                                            *)
WholeOutput == IF args.decompress THEN Expansion(StreamLen) ELSE size + 1

(* The input file goes only when in-place mode was asked for, and never    *)
(* before the whole output is in its file: wherever the run fails or is    *)
(* killed, the data is in at least one of the two.                         *)
InputSafe ==
    ~input => /\ InPlace /\ ~args.keep
              /\ output \in {"new", "truncated"}
              /\ disk = WholeOutput

(* A file that was there is never removed, not even by the cleanup of a    *)
(* failed --force run; without --force it is not touched at all, even when *)
(* it appears after the tool was started.                                  *)
OldOutputKept ==
    [][ /\ existed => output' # "absent"
        /\ output = "old" /\ ~args.force => output' = "old" ]_vars

(* The exit status tells the truth: success means a whole stream and all   *)
(* its output written; and a run that met no I/O or codec error fails only *)
(* on a truncated stream, even with a strict decoder that owes more than a *)
(* buffer when its input ends.                                             *)
ExitTellsTruth ==
    /\ phase = "ok" => /\ disk = WholeOutput
                       /\ args.decompress => size >= StreamLen
    /\ phase = "io" /\ ~trouble => args.decompress /\ size < StreamLen
=============================================================================
