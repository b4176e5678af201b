--------------------------- MODULE MCUpstreamBytes ---------------------------
(* Bodies for TLC: up to MaxLines lines, all ended the same way. *)
EXTENDS UpstreamBytesProperties

CONSTANT MaxLines

Contents ==
  { <<>>,
    <<"event", ":", "sp", "error">>,
    <<"data", ":", "{", "x", "}">>,
    <<"data", ":", "sp", "{", "cont", "lead", "cont">>,
    <<"data", ":", "sp", "lead", "cont", "cont", "}">>,
    <<"data", ":", "sp", "[DONE]">> }

MCBodies ==
  {FlattenSeq([k \in DOMAIN ls |-> ls[k] \o end]) :
     ls \in UNION {[1..n -> Contents] : n \in 1..MaxLines}, end \in {<<LF>>, <<CR, LF>>}}
=============================================================================
