----------------------------- MODULE MCPlayback ------------------------------
(***************************************************************************)
(* The instance of Playback that TLC checks.                               *)
(***************************************************************************)
EXTENDS Playback, SequencesExt

\* Offers of one media with H264 under two types and one beyond a byte, its
\* attributes in every order, and of two media.
MCAttr  == [key : {"rtpmap H264", "fmtp"}, pt : {97, 126, 256}]
MCMedia == BoundedSeq(MCAttr \cup [key : {"rtpmap"}, pt : {97}], 2)
MCOffers == {<<m>> : m \in SeqOf(MCAttr, 4)} \cup {<<m, n>> : m \in MCMedia, n \in MCMedia}

MCLayouts == {<<"H264">>, <<"H264", "OPUS">>, <<"OPUS", "H264">>}

=============================================================================
