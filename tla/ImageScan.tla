------------------------------- MODULE ImageScan -------------------------------
(***************************************************************************)
(* inFile (internal/enterchroot/enter.go): the search of the program's own *)
(* binary for the magic number that ends it and begins the root image.     *)
(*                                                                         *)
(* The file is read buffer by buffer; `found` and `offset` live across     *)
(* buffers.  text is what has been read so far: the file is arbitrary, so  *)
(* each byte is chosen when it is read.                                    *)
(***************************************************************************)
EXTENDS Naturals, Sequences

CONSTANTS
    Bytes,          \* the values a byte may have
    Magic,          \* the magic number, strings.ToLower(magic)
    BufSize,        \* bytes one Read may return (8192 in the code)
    MaxText         \* bound on the length of the file

ASSUME ScanAssumption ==
    /\ Magic \in Seq(Bytes)
    /\ Len(Magic) > 0
    /\ BufSize \in Nat \ {0}
    /\ MaxText \in Nat

VARIABLES
    scan,           \* what inFile does next, or how it ended
    text,           \* the bytes read
    left,           \* bytes of the buffer still to look at
    found,          \* the local variable found
    offset          \* the local variable offset, and the result

scanVars == <<scan, text, left, found, offset>>

ScanPCs == {"off", "read", "bytes", "hit", "miss", "error"}

ScanTypeOK ==
    /\ scan \in ScanPCs
    /\ text \in Seq(Bytes)
    /\ left \in Nat
    /\ found \in 0 .. Len(Magic)
    /\ offset \in Nat

ScanInit ==
    scan = "off" /\ text = <<>> /\ left = 0 /\ found = 0 /\ offset = 0

\* The file is opened and the local variables are set up.
StartScan ==
    /\ scan = "off"
    /\ scan' = "read"
    /\ text' = <<>> /\ left' = 0 /\ found' = 0 /\ offset' = 0

\* Mutant: the progress of the comparison is forgotten at a buffer's end.
ForgetfulRead ==
    /\ scan = "read"
    /\ \E n \in 1 .. BufSize :
          Len(text) + n <= MaxText /\ left' = n
    /\ scan' = "bytes"
    /\ found' = 0
    /\ UNCHANGED <<text, offset>>

\* f.Read returns n bytes.
ReadBuffer ==
    /\ scan = "read"
    /\ \E n \in 1 .. BufSize :
          Len(text) + n <= MaxText /\ left' = n
    /\ scan' = "bytes"
    /\ UNCHANGED <<text, found, offset>>

\* f.Read returns io.EOF and no byte, or an error: inFile fails.
ReadEnds ==
    /\ scan = "read"
    /\ scan' \in {"miss", "error"}
    /\ UNCHANGED <<text, left, found, offset>>

\* Mutant: a byte that does not match leaves the count of matching bytes.
StickyMismatch(b) ==
    /\ scan = "bytes" /\ b # Magic[found + 1]
    /\ found' = found
    /\ scan' = IF left = 1 THEN "read" ELSE "bytes"

\* The byte is not the next one of the magic number: begin again, with the
\* next byte (this byte is not compared with the first of the magic number).
Mismatch(b) ==
    /\ scan = "bytes" /\ b # Magic[found + 1]
    /\ found' = 0
    /\ scan' = IF left = 1 THEN "read" ELSE "bytes"

\* The byte matches; the last one is the end of the search.
Match(b) ==
    /\ scan = "bytes" /\ b = Magic[found + 1]
    /\ found' = found + 1
    /\ scan' = IF found + 1 = Len(Magic) THEN "hit"
               ELSE IF left = 1 THEN "read" ELSE "bytes"

\* The body of the loop over buf[:n].
ScanByte ==
    /\ \E b \in Bytes :
          /\ text' = Append(text, b)
          /\ Match(b) \/ Mismatch(b)
    /\ left' = left - 1
    /\ offset' = offset + 1

\* inFile has returned; its variables are gone.
EndScan ==
    /\ scan \in {"hit", "miss", "error"}
    /\ scan' = "off"
    /\ text' = <<>> /\ left' = 0 /\ found' = 0 /\ offset' = 0

ScanNext == ReadBuffer \/ ReadEnds \/ ScanByte

-----------------------------------------------------------------------------
\* The magic number stands in the file from its i-th byte on.
Occurs(i) ==
    /\ i + Len(Magic) - 1 <= Len(text)
    /\ \A j \in 1 .. Len(Magic) : text[i + j - 1] = Magic[j]

\* No beginning of the magic number ends just before the i-th byte.
Clean(i) ==
    \A k \in 1 .. Len(Magic) - 1 :
        k < i => \E j \in 1 .. k : text[i - 1 - k + j] # Magic[j]

\* The offset that inFile returns (enter.go:203) is the first byte after a
\* complete magic number: the loop device is never set up in the middle of one
\* or anywhere else in the binary.
ScanSound ==
    scan = "hit" =>
        /\ offset = Len(text)
        /\ offset >= Len(Magic)
        /\ Occurs(offset - Len(Magic) + 1)

\* inFile does not back up after a mismatch (enter.go:206), so it may pass over
\* a magic number that a beginning of another one runs into ("__sqmagic_").  It
\* passes over no other: the search stops at the end of the first clean
\* occurrence, wherever the buffers end.
ScanComplete ==
    \A i \in 1 .. Len(text) :
        Occurs(i) /\ Clean(i) => scan = "hit" /\ i + Len(Magic) - 1 = Len(text)
=============================================================================
