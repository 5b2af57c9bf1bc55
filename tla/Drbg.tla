------------------------------- MODULE Drbg -------------------------------
(***************************************************************************)
(* Where the random bit generator gets its entropy (crt_drbg.c, the Unix   *)
(* branch).  The generator's key and counter are abstracted to what they   *)
(* were made from: the list of seeds they absorbed, and the number of      *)
(* updates since.  A byte of a seed is the place in the entropy buffer it  *)
(* was copied from and whether that place held what had been read from the *)
(* source and not used yet, or it is a byte of the personalization string. *)
(***************************************************************************)
EXTENDS Integers, Sequences

CONSTANTS
    EntropySize,      \* bytes of entropy_buffer, 256
    SeedSize,         \* bytes of a seed, 82
    RESEED_INTERVAL,  \* 2e48 in the code
    MaxCounter        \* the largest reseed_ctr, 2^64 - 1

ASSUME DrbgAssumption ==
    /\ EntropySize \in Nat /\ SeedSize \in Nat \ {0}
    /\ RESEED_INTERVAL \in Nat /\ MaxCounter \in Nat \ {0}
    /\ MaxCounter <= RESEED_INTERVAL   \* a counter of 64 bits never gets to 2e48

Personal == [place |-> -1, fresh |-> FALSE]  \* a byte of the string in getRandomBytes
Unopened == -1                               \* the source cannot be opened

\* The static variables at start-up: nothing read, and nothing left to use.
InitialGenerator ==
    [instantiated |-> FALSE, reseed_ctr |-> 0, seeds |-> <<>>, updates |-> 0,
     buffer_size |-> EntropySize, ind |-> EntropySize, fresh |-> {}]

hasEntropyLeft(gen) == gen.ind < gen.buffer_size

\* Opens and reads the source, which yields some bytes, or none.  If it cannot
\* be opened, buffer_size stays what it was.
Refilled(gen, source) ==
    IF source = Unopened THEN [gen EXCEPT !.ind = 0]
    ELSE [gen EXCEPT !.ind = 0, !.buffer_size = source, !.fresh = 0 .. (source - 1)]

\* The generator afterwards, and the bytes copied to the front of the seed.
getSeed(gen, length, source) ==
    LET filled == IF hasEntropyLeft(gen) THEN gen ELSE Refilled(gen, source)
        failed == ~hasEntropyLeft(gen) /\ source \in {Unopened, 0}
        left == filled.buffer_size - filled.ind
        generatedLength == IF failed THEN 0 ELSE IF left < length THEN left ELSE length
        copied == filled.ind .. (filled.ind + generatedLength - 1)
    IN  [gen |-> [filled EXCEPT !.ind = @ + generatedLength, !.fresh = @ \ copied],
         bytes |-> [i \in 1 .. generatedLength |->
                        [place |-> filled.ind + i - 1,
                         fresh |-> (filled.ind + i - 1) \in filled.fresh]]]

\* Key and counter are replaced; the uninitialised bytes CTR_DRBG_Generate
\* passes may be anything and add nothing that is counted on.
CTR_DRBG_Update(gen) == [gen EXCEPT !.updates = @ + 1]

CTR_DRBG_Instantiate(gen, seed) ==
    [CTR_DRBG_Update(gen) EXCEPT !.seeds = <<seed>>, !.reseed_ctr = 1, !.instantiated = TRUE]

CTR_DRBG_Reseed(gen, seed) ==
    [CTR_DRBG_Update(gen) EXCEPT !.seeds = Append(@, seed), !.reseed_ctr = 1]

\* Refuses when a reseed is required.
CTR_DRBG_Generate(gen) ==
    IF gen.reseed_ctr > RESEED_INTERVAL THEN [gen |-> gen, required |-> TRUE]
    ELSE [gen |-> [CTR_DRBG_Update(gen) EXCEPT
                    !.reseed_ctr = IF @ = MaxCounter THEN 0 ELSE @ + 1],
          required |-> FALSE]

\* Mutant: the last, shorter seed is given to the generator at full length.
ReseedOnceFullLength(gen, source) ==
    LET s == getSeed(gen, SeedSize, source)
    IN  CTR_DRBG_Reseed(s.gen, [i \in 1 .. SeedSize |->
            IF i \in DOMAIN s.bytes THEN s.bytes[i] ELSE s.bytes[1]])

ReseedOnce(gen, source) ==
    LET s == getSeed(gen, SeedSize, source) IN CTR_DRBG_Reseed(s.gen, s.bytes)

\* while (hasEntropyLeft()) reseed: at most as often as a full buffer takes.
ReseedWhileLeft(gen, source) ==
    LET most == EntropySize \div SeedSize + 1
        after[k \in 0 .. most] ==
            IF k = 0 THEN gen
            ELSE LET before == after[k - 1]
                 IN  IF hasEntropyLeft(before) THEN ReseedOnce(before, source) ELSE before
    IN  after[most]

\* The first call instantiates, with a seed of full length whatever was read.
getRandomBytes(gen, source) ==
    LET s == getSeed(gen, SeedSize, source)
        first == CTR_DRBG_Instantiate(s.gen, [i \in 1 .. SeedSize |->
                    IF i \in DOMAIN s.bytes THEN s.bytes[i] ELSE Personal])
        ready == IF gen.instantiated THEN gen ELSE ReseedWhileLeft(first, source)
        generated == CTR_DRBG_Generate(ready)
        again == ReseedWhileLeft(ReseedOnce(ready, source), source)
    IN  IF generated.required THEN CTR_DRBG_Generate(again).gen ELSE generated.gen
=============================================================================
