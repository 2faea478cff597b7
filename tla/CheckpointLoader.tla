-------------------------- MODULE CheckpointLoader --------------------------
(***************************************************************************)
(* ModelWeights::load_checkpoint with the parameter layout it computes.    *)
(* Everything the file says is checked before memory is reserved for it;   *)
(* forward and consume_token then address the weights with arithmetic of   *)
(* their own, which relies on those checks.  The file is only a size and a *)
(* header; another process may replace it while it is being loaded.        *)
(***************************************************************************)
EXTENDS SizeArithmetic, Sequences

CONSTANTS
    Headers,      \* the headers files start with
    FileSizes,    \* the sizes files have
    HeaderBytes,  \* checkpoint_header_ints * sizeof(std::int32_t)
    FloatBytes,   \* sizeof(float)
    StreamMax,    \* std::numeric_limits<std::streamsize>::max()
    NoHeader

HeaderType ==
    [magic : BOOLEAN, version : Int, max_sequence_length : Int,
     vocabulary_size : Int, num_layers : Int, num_heads : Int, channels : Int,
     padded_vocabulary_size : Int]

ASSUME LoaderAssumption ==
    /\ \A h \in Headers :
          /\ h \in HeaderType
          /\ \A f \in DOMAIN h \ {"magic"} : h[f] <= SizeMax
    /\ FileSizes \subseteq Sizes
    /\ HeaderBytes \in Sizes \ {0} /\ FloatBytes \in Sizes \ {0} /\ StreamMax \in Sizes
    /\ SizeMax >= 4
    /\ NoHeader \notin Headers

VARIABLES
    file,           \* the file as it is now: its size and its header
    pc, outcome,
    file_size,      \* what tellg() said
    config,         \* the configuration read, or NoHeader
    offset, count,  \* of the tensors laid out so far, in order
    total_count,
    storage         \* how many floats of the storage come from the file

vars == <<file, pc, outcome, file_size, config, offset, count, total_count, storage>>

-----------------------------------------------------------------------------
(* The configuration and its layout.                                       *)

Dimensions == {"max_sequence_length", "vocabulary_size", "num_layers", "num_heads",
               "channels", "padded_vocabulary_size"}

\* Version 1 has no padded vocabulary.
ConfigOf(h) ==
    IF h.version = 1 THEN [h EXCEPT !.padded_vocabulary_size = h.vocabulary_size] ELSE h

\* Mutant: ModelConfig::validate does not compare the vocabulary sizes.
ValidWithoutPadding(c) ==
    /\ \A d \in Dimensions : c[d] > 0
    /\ c.channels % c.num_heads = 0

\* ModelConfig::validate
Valid(c) ==
    /\ \A d \in Dimensions : c[d] > 0
    /\ c.channels % c.num_heads = 0
    /\ c.padded_vocabulary_size >= c.vocabulary_size

\* The dimensions of the tensors, in the order of the file.
Shapes(c) ==
    LET L == c.num_layers
        C == c.channels
        c3 == CheckedMultiply(3, C)
        c4 == CheckedMultiply(4, C)
    IN  << <<c.padded_vocabulary_size, C>>,                    \* wte
           <<c.max_sequence_length, C>>,                       \* wpe
           <<L, C>>, <<L, C>>,                                 \* ln1w, ln1b
           <<L, c3, C>>, <<L, c3>>,                            \* qkvw, qkvb
           <<L, C, C>>, <<L, C>>,                              \* attprojw, attprojb
           <<L, C>>, <<L, C>>,                                 \* ln2w, ln2b
           <<L, c4, C>>, <<L, c4>>,                            \* fcw, fcb
           <<L, C, c4>>, <<L, C>>,                             \* fcprojw, fcprojb
           <<C>>, <<C>> >>                                     \* lnfw, lnfb

TensorCount == 16

\* product(): no parameter has more than three dimensions.
Product(dims) ==
    CASE Len(dims) = 1 -> dims[1]
      [] Len(dims) = 2 -> CheckedMultiply(dims[1], dims[2])
      [] Len(dims) = 3 -> CheckedMultiply(CheckedMultiply(dims[1], dims[2]), dims[3])

\* checked_bytes, and the size of the whole file.
PayloadBytes == CheckedMultiply(total_count, FloatBytes)
ExpectedSize == CheckedAdd(HeaderBytes, PayloadBytes)

-----------------------------------------------------------------------------
Init ==
    /\ file \in [size : FileSizes, header : Headers]
    /\ pc = "open" /\ outcome = "none"
    /\ file_size = 0 /\ config = NoHeader
    /\ offset = <<>> /\ count = <<>> /\ total_count = 0
    /\ storage = 0

\* Another process truncates or extends the file before the next time it is
\* looked at: a change at any other moment is seen no earlier.
FileChanges ==
    /\ pc \in {"header", "read"}
    /\ \E size \in FileSizes : file' = [file EXCEPT !.size = size]
    /\ UNCHANGED <<pc, outcome, file_size, config, offset, count, total_count, storage>>

Throw(error) ==
    /\ pc' = "done"
    /\ outcome' = error

\* Open at the end, ask for the size, and reject a truncated header.
Open ==
    /\ pc = "open"
    /\ \/ Throw("runtime_error") /\ UNCHANGED file_size
       \/ /\ file_size' = file.size
          /\ IF file.size < HeaderBytes THEN Throw("runtime_error")
             ELSE pc' = "header" /\ UNCHANGED outcome
    /\ UNCHANGED <<file, config, offset, count, total_count, storage>>

\* Read and check the header; ParameterLayout's constructor starts.  Reading may
\* fail although the file is long enough.
ReadHeader ==
    LET h == file.header
        c == ConfigOf(h)
        readable == /\ file.size >= HeaderBytes
                    /\ h.magic
                    /\ h.version \in {1, 3}
                    /\ \A d \in Dimensions : c[d] > 0
    IN  /\ pc = "header"
        /\ \/ Throw("runtime_error") /\ UNCHANGED config
           \/ readable /\ ~Valid(c) /\ Throw("invalid_argument") /\ UNCHANGED config
           \/ /\ readable /\ Valid(c)
              /\ config' = c
              /\ IF \/ CheckedMultiply(3, c.channels) = Overflow
                    \/ CheckedMultiply(4, c.channels) = Overflow
                 THEN Throw("overflow_error")
                 ELSE pc' = "layout" /\ UNCHANGED outcome
        /\ UNCHANGED <<file, file_size, offset, count, total_count, storage>>

\* Mutant: the offset is taken after the tensor has been counted.
AddTensorAfterTotal ==
    LET n == Product(Shapes(config)[Len(count) + 1])
        total == CheckedAdd(total_count, n)
    IN  /\ pc = "layout"
        /\ Len(count) < TensorCount
        /\ total # Overflow
        /\ offset' = Append(offset, total)
        /\ count' = Append(count, n)
        /\ total_count' = total
        /\ UNCHANGED <<file, pc, outcome, file_size, config, storage>>

\* The lambda add of ParameterLayout's constructor, for the next tensor.
AddTensor ==
    LET n == Product(Shapes(config)[Len(count) + 1])
        total == CheckedAdd(total_count, n)
    IN  /\ pc = "layout"
        /\ Len(count) < TensorCount
        /\ IF total = Overflow
           THEN Throw("overflow_error") /\ UNCHANGED <<offset, count, total_count>>
           ELSE /\ offset' = Append(offset, total_count)
                /\ count' = Append(count, n)
                /\ total_count' = total
                /\ UNCHANGED <<pc, outcome>>
        /\ UNCHANGED <<file, file_size, config, storage>>

\* The size the layout demands is compared with the size of the file.
CheckSize ==
    /\ pc = "layout"
    /\ Len(count) = TensorCount
    /\ CASE ExpectedSize = Overflow -> Throw("overflow_error")
         [] ExpectedSize # Overflow /\ file_size # ExpectedSize -> Throw("runtime_error")
         [] file_size = ExpectedSize /\ PayloadBytes > StreamMax -> Throw("overflow_error")
         [] file_size = ExpectedSize /\ PayloadBytes <= StreamMax ->
              pc' = "read" /\ UNCHANGED outcome
    /\ UNCHANGED <<file, file_size, config, offset, count, total_count, storage>>

\* The floats of the payload that the file can still provide.
Available ==
    LET bytes == IF file.size < HeaderBytes + PayloadBytes
                 THEN file.size - HeaderBytes ELSE PayloadBytes
    IN  IF bytes < 0 THEN 0 ELSE bytes \div FloatBytes

\* Allocate the storage, which may fail, and fill it from the file, which may
\* fail although the file is long enough.
ReadPayload ==
    /\ pc = "read"
    /\ \/ Throw("bad_alloc") /\ UNCHANGED storage
       \/ storage' \in 0..Available /\ Throw("runtime_error")
       \/ /\ file.size >= HeaderBytes + PayloadBytes
          /\ storage' = Available
          /\ Throw("ok")
    /\ UNCHANGED <<file, file_size, config, offset, count, total_count>>

\* load_checkpoint has returned or thrown.
Finished ==
    /\ pc = "done"
    /\ UNCHANGED vars

Next ==
    \/ FileChanges \/ Open \/ ReadHeader \/ AddTensor \/ CheckSize \/ ReadPayload
    \/ Finished

Spec == Init /\ [][Next]_vars

-----------------------------------------------------------------------------
(* What forward and consume_token rely on.                                 *)

\* The tensors' names, to address them as layer_slice does.
Tensors == <<"wte", "wpe", "ln1w", "ln1b", "qkvw", "qkvb", "attprojw", "attprojb",
             "ln2w", "ln2b", "fcw", "fcb", "fcprojw", "fcprojb", "lnfw", "lnfb">>

Index(name) == CHOOSE i \in 1..TensorCount : Tensors[i] = name

\* per_layer of the slices of one layer: c3 * channels and the like are not
\* checked where they are computed.
PerLayer(name) ==
    LET C == config.channels
    IN  CASE name = "qkvw" -> SizeT(SizeT(3 * C) * C)
          [] name = "qkvb" -> SizeT(3 * C)
          [] name = "attprojw" -> SizeT(C * C)
          [] name = "fcw" -> SizeT(SizeT(4 * C) * C)
          [] name = "fcb" -> SizeT(4 * C)
          [] name = "fcprojw" -> SizeT(C * SizeT(4 * C))
          [] OTHER -> C

Layered == {"ln1w", "ln1b", "qkvw", "qkvb", "attprojw", "attprojb", "ln2w", "ln2b",
            "fcw", "fcb", "fcprojw", "fcprojb"}

Loaded == outcome = "ok"

\* Types, and the progress of the constructor's loop: the tensors laid out so far are
\* contiguous, start at 0 and end at the running total.
TypeOK ==
    /\ file \in [size : FileSizes, header : Headers]
    /\ pc \in {"open", "header", "layout", "read", "done"}
    /\ outcome \in {"none", "ok", "runtime_error", "invalid_argument", "overflow_error",
                    "bad_alloc"}
    /\ pc # "done" => outcome = "none" /\ storage = 0
    /\ file_size \in Sizes /\ total_count \in Sizes /\ storage \in 0..total_count
    /\ config \in {ConfigOf(h) : h \in Headers} \cup {NoHeader}
    /\ offset \in Seq(Sizes) /\ count \in Seq(Sizes)
    /\ Len(offset) = Len(count) /\ Len(count) <= TensorCount
    /\ pc \in {"open", "header"} => count = <<>>
    /\ count = <<>> => total_count = 0
    /\ \A i \in 1..Len(count) :
          /\ offset[i] = IF i = 1 THEN 0 ELSE offset[i - 1] + count[i - 1]
          /\ i = Len(count) => offset[i] + count[i] = total_count

\* A loaded model has exactly the parameters its file holds, although the size
\* was asked for before the header and the payload were read: no size wrapped,
\* nothing was missing and nothing was left over.
StorageComplete ==
    Loaded => /\ Len(count) = TensorCount
              /\ storage = total_count
              /\ file_size = HeaderBytes + FloatBytes * total_count

\* Every slice of the weights that forward or consume_token takes for a layer,
\* a token or a position lies inside its tensor, and none of the unchecked
\* offsets wraps.
WeightAddressesInside ==
    Loaded =>
        /\ \A name \in Layered, layer \in 0 .. (config.num_layers - 1) :
              /\ CheckedMultiply(layer, PerLayer(name)) = layer * PerLayer(name)
              /\ layer * PerLayer(name) + PerLayer(name) <= count[Index(name)]
        /\ \A token \in 0 .. (config.vocabulary_size - 1) :
              SizeT(token * config.channels) + config.channels <= count[Index("wte")]
        /\ \A position \in 0 .. (config.max_sequence_length - 1) :
              SizeT(position * config.channels) + config.channels <= count[Index("wpe")]
        /\ SizeT(config.vocabulary_size * config.channels) <= count[Index("wte")]

-----------------------------------------------------------------------------
(* The inductive invariant.                                                *)

\* From the layout on, the configuration has passed validate() and the widths
\* that ParameterLayout derives from it.
ConfigAccepted ==
    pc \in {"layout", "read"} \/ Loaded =>
        /\ config \in {ConfigOf(h) : h \in Headers}
        /\ Valid(config)
        /\ CheckedMultiply(3, config.channels) # Overflow
        /\ CheckedMultiply(4, config.channels) # Overflow

\* The tensors laid out so far have the sizes of their shapes.
TensorsExact ==
    pc \in {"layout", "read"} \/ Loaded =>
        \A i \in 1..Len(count) : count[i] = Product(Shapes(config)[i])

\* The payload is read only into a complete layout that the file's size fits.
SizeChecked ==
    pc = "read" \/ Loaded =>
        /\ Len(count) = TensorCount
        /\ ExpectedSize # Overflow /\ file_size = ExpectedSize

\* What every step of the loader keeps.
LoaderInv ==
    /\ TypeOK /\ ConfigAccepted /\ TensorsExact /\ SizeChecked
    /\ Loaded => storage = total_count
=============================================================================
