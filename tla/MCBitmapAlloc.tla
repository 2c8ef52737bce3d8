--------------------------- MODULE MCBitmapAlloc ---------------------------
(* Instances of BitmapAlloc for TLC: a bitmap of six units with two of them
   reserved (the metadata blocks), and one with unit 0 reserved (inode 0). *)
EXTENDS BitmapAlloc

MetadataUnits == {0, 1}
InodeZero == {0}

=============================================================================
