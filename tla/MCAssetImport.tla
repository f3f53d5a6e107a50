--------------------------- MODULE MCAssetImport ---------------------------
(***************************************************************************)
(* A model in three exports: two materials of one name over an embedded    *)
(* image and a picture beside the model; the same materials in the other   *)
(* order, without the picture and with an image that does not decode; a    *)
(* model that has nothing to produce.                                      *)
(***************************************************************************)
EXTENDS AssetImport

CONSTANTS model, picture

Material1(name, images) == [name |-> name, images |-> images]
Image1(name, holds) == [name |-> name, holds |-> holds]

First ==
    [materials |-> <<Material1(<<"wood">>, <<1>>), Material1(<<"wood">>, <<1, 2>>)>>,
     images |-> <<Image1(<<"bark">>, Embedded), Image1(<<>>, picture)>>]
Second ==
    [materials |-> <<Material1(<<"iron">>, <<1, 2>>), Material1(<<"wood">>, <<2>>)>>,
     images |-> <<Image1(<<>>, Unreadable), Image1(<<"bark">>, Embedded)>>]
Bare == [materials |-> <<>>, images |-> <<>>]

MCExports == {First, Second, Bare}
=============================================================================
