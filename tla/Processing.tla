----------------------------- MODULE Processing -----------------------------
(***************************************************************************)
(* What the indexer derives of the bytes of one file, from an archive or a *)
(* directory (process_reader_with_reuse in src/core/indexer.rs).           *)
(***************************************************************************)
EXTENDS Basics

CONSTANTS
  Bytes,     \* contents of files and targets of links; they stand for their hashes
  Torn,      \* the hash of bytes read in part before a change, in part after
  BytesSize, \* the size of each content
  Decodes,   \* contents that decode as an image
  Binary,    \* contents that look binary
  Media,     \* what the extension of each path says: image, heic, raw, video or other
  TextCap, MediaCap

Outcome(hash, kind, flags) == [hash |-> hash, kind |-> kind, flags |-> flags]

\* A HEIC image is an image that is never decoded.
MediaKind(p) == IF Media[p] = "heic" THEN "image" ELSE Media[p]

Fresh(p, c) ==
  LET cap == IF Media[p] = "other" THEN TextCap ELSE MediaCap
      over == c # Torn /\ BytesSize[c] > cap IN
  IF c # Torn /\ BytesSize[c] = 0 THEN Outcome(c, "empty", {})
  ELSE CASE Media[p] = "image" ->
              Outcome(c, "image", IF over THEN {"IMAGE_OVER_CAP"}
                                  ELSE IF c \in Decodes THEN {} ELSE {"DECODE_FAILED"})
         [] Media[p] \in {"heic", "raw", "video"} -> Outcome(c, MediaKind(p), {})
         [] OTHER -> IF c \in Binary THEN Outcome(c, "binary", {})
                     ELSE Outcome(c, "text", IF over THEN {"FTS_TRUNCATED"} ELSE {})

\* A partial hash would be a lie.
ReadFailed == Outcome(NoValue, "binary", {"READ_ERROR"})

=============================================================================
