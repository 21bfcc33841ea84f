---------------------------- MODULE RtspSessionMC ----------------------------
(***************************************************************************)
(* RtspSession with a missing file and two short ones.  In the first, the   *)
(* parameter sets change; slices have one packet, or fragments with an      *)
(* empty, a partial or a full last one.  In the second, a picture has two   *)
(* slices, and units of other types stand between, to be dropped or sent.  *)
(***************************************************************************)
EXTENDS RtspSession

Nalu(type, len, first) == [nal_unit_type |-> type, len |-> len, first_mb |-> first]

\* Number the units of a file.
Numbered(f) ==
  [i \in DOMAIN f |-> [nal_unit_type |-> f[i].nal_unit_type, len |-> f[i].len,
                       first_mb |-> f[i].first_mb, id |-> i]]

NewSets == Numbered(<<
  Nalu("SPS", 2, FALSE), Nalu("PPS", 1, FALSE), Nalu("IDR", 8, TRUE), Nalu("B_P", 2, TRUE),
  Nalu("SPS", 2, FALSE), Nalu("PPS", 2, FALSE), Nalu("IDR", 4, TRUE), Nalu("B_P", 7, TRUE)>>)

TwoSlices == Numbered(<<
  Nalu("AUD", 1, FALSE), Nalu("SPS", 2, FALSE), Nalu("PPS", 1, FALSE), Nalu("SEI", 5, FALSE),
  Nalu("IDR", 5, TRUE), Nalu("IDR", 1, FALSE), Nalu("other", 1, FALSE), Nalu("DP", 2, TRUE)>>)

SmallFiles == {<< >>, NewSets, TwoSlices}

ASSUME FilesAssumption == \A f \in SmallFiles : WellConfigured(f)
==============================================================================
