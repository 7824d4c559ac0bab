----------------------------- MODULE MCDbnInput -----------------------------
(* Every compressed file of up to MaxSize bytes: each byte completes a block of *)
(* BlockBytes or none, every choice of frame ends, intact or damaged anywhere.  *)
EXTENDS DbnInput

CONSTANTS
    MaxSize,        \* compressed bytes in a file
    BlockBytes,     \* what one block decodes to
    PlainSize       \* the bytes of the uncompressed file

Table(size, completes) == [i \in 0..size |->
    BlockBytes * (IF i = 0 THEN 0
                  ELSE IF i = 1 THEN completes[1]
                  ELSE IF i = 2 THEN completes[1] + completes[2]
                  ELSE IF i = 3 THEN completes[1] + completes[2] + completes[3]
                  ELSE completes[1] + completes[2] + completes[3] + completes[4])]

Compressed == UNION {
    {[zstd |-> TRUE, size |-> size, decoded |-> Table(size, completes), sound |-> sound, ends |-> ends] :
        completes \in [1..size -> {0, 1}], sound \in 0..size, ends \in SUBSET (1..size)}
    : size \in 0..MaxSize}

Plain == [zstd |-> FALSE, size |-> PlainSize, decoded |-> [i \in 0..PlainSize |-> i],
          sound |-> PlainSize, ends |-> {}]

WholeFiles == {f \in Compressed : Whole(f)} \cup {Plain}

(* Cut off: every byte decodes, but the last frame has no end.                *)
CutFiles == {f \in Compressed : ~Whole(f)}

=============================================================================
