---------------------------- MODULE MCMaterials -----------------------------
(* Small instances of Materials.                                             *)
EXTENDS Materials

Mat(product, id, layer, type) ==
    [product |-> product, id |-> id, layer |-> layer, type |-> type]

\* The command line gives a logo, the mainvideo and a video of product 1
MCNames == {"logo", "main", "v1", "w2", "w0", "pic"}

MCInfo ==
    [m \in MCNames |->
        CASE m = "logo" -> Mat(0, 9, 0, "image")
          [] m = "main" -> Mat(0, 0, 1, "main")
          [] m = "v1"   -> Mat(1, 5, 2, "video")
          [] m = "w2"   -> Mat(2, 6, 3, "video")
          [] m = "w0"   -> Mat(0, 7, 2, "audio")
          [] m = "pic"  -> Mat(0, 8, 0, "image")]

Add(m) == [op |-> "ADD", product |-> MCInfo[m].product, id |-> MCInfo[m].id, m |-> m]
Del(product, id) == [op |-> "DEL", product |-> product, id |-> id]
Mod(product, id) == [op |-> "MOD", product |-> product, id |-> id]
Swprod(product) == [op |-> "SWPROD", product |-> product]

\* Materials for every product, for the current one and for another, lines that
\* are skipped, and both ways to delete and to switch
AllLines == {Add("w2"), Add("w0"), Add("pic"), Del(2, 6), Del(0, 0), Del(0, 9), Mod(0, 7), Swprod(2),
             Swprod(0)}
RaceLines == {Add("w2"), Swprod(2)}
=============================================================================
