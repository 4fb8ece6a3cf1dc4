------------------------- MODULE MCArtifactService -------------------------
(* Uploads that fit, that need an eviction, that are too many or too large. *)
EXTENDS ArtifactService
CONSTANTS c1, c2
SmallUploads == {<<1>>, <<2, 1>>, <<1, 1, 1>>, <<3>>}
OneUpload == {<<1>>}
=============================================================================
