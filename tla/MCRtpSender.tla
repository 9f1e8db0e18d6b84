----------------------------- MODULE MCRtpSender -----------------------------
(***************************************************************************)
(* RtpSender on a ring of three entries that the puts overrun, with        *)
(* packets of at most 24 bytes over TCP and 36 over UDP.  The slices are   *)
(* as long as a packet of either transport takes, a byte longer, and as    *)
(* long as fill their fragments exactly.                                   *)
(***************************************************************************)
EXTENDS RtpSender

\* NAL units of the given kinds and lengths, one behind the other, with start codes of
\* `code' bytes.
RECURSIVE At(_, _, _)
At(lengths, code, k) == IF k = 1 THEN 0 ELSE At(lengths, code, k - 1) + code + lengths[k - 1]

MCFrame(key, kinds, lengths, code) ==
  LET n == Len(lengths)
  IN  [n |-> n, key |-> key, size |-> At(lengths, code, n) + code + lengths[n],
       nals |-> [k \in 1 .. n |->
                   [at |-> At(lengths, code, k), body |-> At(lengths, code, k) + code,
                    end |-> At(lengths, code, k) + code + lengths[k], kind |-> kinds[k]]]]

MCPFrame(length, code) == MCFrame(FALSE, <<"slice">>, <<length>>, code)
MCKeyFrame(length) ==
  MCFrame(TRUE, <<"parameters", "parameters", "slice">>, <<3, 2, length>>, 4)

MCFrames ==
  {MCPFrame(length, 4) : length \in {7, 8, 13}} \cup {MCPFrame(9, 3), MCPFrame(25, 3)}
  \cup {MCKeyFrame(length) : length \in {9, 24, 45}}
==============================================================================
