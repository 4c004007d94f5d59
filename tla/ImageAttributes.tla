-------------------------- MODULE ImageAttributes --------------------------
(***************************************************************************)
(* The attributes of a requested image (image_attrs.py) and of a template  *)
(* (template_attrs.py): how they are validated, merged and normalised, the *)
(* key that they are cached under, and which image may be the base that    *)
(* another is made from.  An attribute that is not given is None.  Crops   *)
(* are multiples of 1/Unit, overlay sizes and opacities of 1/100; names    *)
(* are compared only.                                                      *)
(***************************************************************************)
EXTENDS Imaging, FiniteSets

CONSTANTS Ext,           \* the extension of the image's filename
          IsPdf,         \* whether that is the extension of a PDF
          Formats,       \* the formats that the back end supports
          MaxDimension,  \* MAX_IMAGE_DIMENSION
          MaxTiles       \* MAX_GRID_TILES

ASSUME SettingsAssumption == MaxDimension \in Nat /\ MaxTiles \in Nat

NoAttrs ==
  [page |-> None, format |-> None, template |-> None, width |-> None, height |-> None,
   align_h |-> None, align_v |-> None, rotation |-> None, flip |-> None,
   top |-> None, left |-> None, bottom |-> None, right |-> None, crop_fit |-> None,
   size_fit |-> None, fill |-> None, quality |-> None, sharpen |-> None,
   overlay_src |-> None, overlay_size |-> None, overlay_pos |-> None, overlay_opacity |-> None,
   icc_profile |-> None, icc_intent |-> None, icc_bpc |-> None, colorspace |-> None,
   strip |-> None, dpi |-> None, tile |-> None]

Fields == DOMAIN NoAttrs

Given(a, f) == a[f] # None
Agree(a, b, fields) == \A f \in fields : a[f] = b[f]
Truthy(a, f) == a[f] = TRUE
OrElse(value, default) == IF value = None THEN default ELSE value

\* ImageAttrs.format()
FormatOf(a) == OrElse(a.format, Ext)

---------------------------------------------------------------------------
(* Validation *)

Squares == {n * n : n \in 1..MaxTiles} \cap (1..MaxTiles)
TileSpecs == (1..MaxTiles) \X Squares
MaxPage == 999999

\* A validator for every field.  Those of the names are choices that the
\* administrator configures; here every name is one of them.
Limits ==
  [page |-> 0..MaxPage, width |-> 0..MaxDimension, height |-> 0..MaxDimension,
   rotation |-> -360..360, top |-> 0..Unit, left |-> 0..Unit, bottom |-> 0..Unit, right |-> 0..Unit,
   quality |-> 1..100, sharpen |-> -500..500, overlay_size |-> 0..100, overlay_opacity |-> 0..100,
   dpi |-> 0..32000, flip |-> {"h", "v"}, format |-> Formats,
   crop_fit |-> BOOLEAN, size_fit |-> BOOLEAN, icc_bpc |-> BOOLEAN, strip |-> BOOLEAN,
   tile |-> TileSpecs]

Valid(a) ==
  /\ \A f \in DOMAIN Limits : Given(a, f) => a[f] \in Limits[f]
  /\ Given(a, "tile") => a.tile[1] <= a.tile[2]

---------------------------------------------------------------------------
(* Merging and normalising *)

\* The attributes with those of a template or of a dictionary applied.
ApplyDict(a, dict, override) ==
  [f \in Fields |-> IF Given(dict, f) /\ (override \/ ~Given(a, f)) THEN dict[f] ELSE a[f]]

\* The values that have no effect.
NoEffect ==
  [page |-> {0, 1}, width |-> {0}, height |-> {0},
   align_h |-> {"c0.5"}, align_v |-> {"c0.5"}, rotation |-> {0, 360, -360},
   top |-> {0, Unit}, left |-> {0, Unit}, bottom |-> {0, Unit}, right |-> {0, Unit},
   fill |-> {"white"}, quality |-> {0}, sharpen |-> {0}, overlay_pos |-> {"c"},
   overlay_opacity |-> {100}, overlay_size |-> {100}, dpi |-> {0}]

CropSides == {"top", "left", "bottom", "right"}
Cropped(a) == \E f \in CropSides : Given(a, f)
Clear(a, fields, condition) ==
  IF condition THEN [f \in Fields |-> IF f \in fields THEN None ELSE a[f]] ELSE a

\* The same format has one name.
FormatName(format) == IF format = "pjpeg" THEN "pjpg" ELSE format

\* Without the values that have no effect of their own.
EffectiveValue(a, f) ==
  CASE f = "format" -> IF FormatName(a[f]) = Ext THEN None ELSE FormatName(a[f])
    [] f = "tile" -> IF Given(a, "tile") /\ a.tile[2] < 2 THEN None ELSE a.tile
    [] f \in DOMAIN NoEffect -> IF a[f] \in NoEffect[f] THEN None ELSE a[f]
    [] OTHER -> a[f]
Effective(a) == [f \in Fields |-> EffectiveValue(a, f)]

\* Mutant: half a turn and a flip are taken for the same flip.
HalfTurnLost(a) ==
  IF a.rotation = 180 /\ Given(a, "flip") THEN [a EXCEPT !.rotation = None] ELSE a

\* Half a turn and a flip are the other flip.
HalfTurn(a) ==
  IF a.rotation = 180 /\ Given(a, "flip")
  THEN [a EXCEPT !.rotation = None, !.flip = IF a.flip = "v" THEN "h" ELSE "v"]
  ELSE a

NotStretched(a) == ~Given(a, "width") \/ ~Given(a, "height") \/ Truthy(a, "size_fit")

SizeFitOnly(a) == Clear(a, {"size_fit"}, Truthy(a, "size_fit") /\ (~Given(a, "width") \/ ~Given(a, "height")))
CropFitOnly(a) == Clear(a, {"crop_fit"}, Truthy(a, "crop_fit") /\ ~Cropped(a))
FillOnly(a) == Clear(a, {"fill"}, NotStretched(a) /\ ~Given(a, "rotation"))
AlignOnly(a) == Clear(a, {"align_h", "align_v"}, NotStretched(a))
ColourNames(a) == [a EXCEPT !.colorspace = CASE @ = "srgb" -> "rgb" [] @ = "grey" -> "gray" [] OTHER -> @]
OverlayOnly(a) == Clear(a, {"overlay_src", "overlay_pos", "overlay_size", "overlay_opacity"},
                        ~Given(a, "overlay_src") \/ a.overlay_opacity = 0 \/ a.overlay_size = 0)
ProfileOnly(a) == Clear(a, {"icc_intent", "icc_bpc"}, ~Given(a, "icc_profile"))

\* In this order: what one step clears, the next ones do not see.
NormaliseValues(a) ==
  ProfileOnly(OverlayOnly(ColourNames(AlignOnly(FillOnly(HalfTurn(CropFitOnly(SizeFitOnly(Effective(a)))))))))

\* attributes_change_image: the other fields matter only beside these.
AttributesChangeImage(a) ==
  \/ \E f \in {"format", "page", "rotation", "flip", "width", "height", "top", "left", "bottom", "right",
               "quality", "sharpen", "overlay_src", "icc_profile", "colorspace", "dpi", "tile"} : Given(a, f)
  \/ Truthy(a, "strip")

\* finalise_image_attrs, after the first validation.  An image that does not
\* change but for the quality of the default template is left as it is.
KeepOriginal(a, merged, unasked) ==
  IF ~Given(a, "quality") /\ ~Given(merged, "template") /\ ~AttributesChangeImage(unasked)
  THEN unasked ELSE merged
WithoutQuality(a, merged) == KeepOriginal(a, merged, [merged EXCEPT !.quality = None])
FinaliseImageAttrs(a, template) == WithoutQuality(a, NormaliseValues(ApplyDict(a, template, FALSE)))

\* get_cache_key: values that are false in Python are left out.  The name
\* of the template is not part of it.
FalseValues(f) ==
  CASE f \in {"crop_fit", "size_fit", "icc_bpc", "strip"} -> {FALSE}
    [] f \in {"page", "width", "height", "rotation", "top", "left", "bottom", "right", "quality",
              "sharpen", "overlay_opacity", "overlay_size", "dpi"} -> {0}
    [] OTHER -> {}

CacheKey(a) ==
  [f \in Fields \ {"template"} |-> IF a[f] \in FalseValues(f) THEN None ELSE a[f]]

---------------------------------------------------------------------------
(* suitable_for_base(): base and target are both normalised.  The numbers  *)
(* are the method's reason codes.                                          *)

\* 1 - 5.  The filenames are those of one image here.
SameSource(base, target) ==
  /\ Agree(base, target, {"page", "fill"})
  /\ FormatOf(base) = FormatOf(target)
  /\ ~Given(base, "sharpen")

\* 6.  In hundredths, rounded; -1 when the proportions are the image's own.
Aspect(a) ==
  IF NotStretched(a) THEN -1 ELSE (200 * a.width + a.height) \div (2 * a.height)

\* 7, 8.  The quality of the original cannot be bettered, nor can its size.
AtLeast(base, target, f, original) == OrElse(base[f], original) >= OrElse(target[f], original)
GoodEnough(base, target) ==
  /\ AtLeast(base, target, "quality", 101)
  /\ AtLeast(base, target, "width", 999999999)
  /\ AtLeast(base, target, "height", 999999999)

\* 9, 10
NoneOrSame(base, target, f) == Given(base, f) => base[f] = target[f]

\* Mutant: what was stripped from the base is taken to be there.
StrippedFits(base, target) == OrElse(base.dpi, 0) # 0 => OrElse(target.dpi, 0) # 0

\* 12, 13.  The DPI decides the size of a PDF; otherwise it is metadata.
MetadataFits(base, target) ==
  /\ Truthy(base, "strip") => Truthy(target, "strip")
  /\ IF IsPdf THEN base.dpi = target.dpi ELSE OrElse(base.dpi, 0) # 0 => OrElse(target.dpi, 0) # 0

\* 14, 15
ColourFits(base, target) ==
  /\ Given(base, "icc_profile") => Agree(base, target, {"icc_profile", "icc_intent", "icc_bpc"})
  /\ Given(target, "icc_profile") => ~Given(base, "colorspace") /\ ~Truthy(base, "strip")
  /\ NoneOrSame(base, target, "colorspace")

\* 16.  A base that is not cropped must have its full size, or the crop
\* would miss pixels.
CropFits(base, target) ==
  \/ ~Cropped(base) /\ ~Given(base, "width") /\ ~Given(base, "height")
  \/ /\ Agree(base, target, CropSides)
     /\ \/ ~Truthy(base, "crop_fit") /\ ~Truthy(target, "crop_fit")
        \/ /\ Truthy(base, "crop_fit") /\ Truthy(target, "crop_fit")
           /\ Agree(base, target, {"width", "height"})

ShapeFields == {"width", "height", "rotation", "flip"} \cup CropSides
Overlay == {"overlay_src", "overlay_pos", "overlay_opacity", "overlay_size"}

\* 17.  An overlay is at its right place in a tile of the same image only.
OverlayFits(base, target) ==
  Given(base, "overlay_src") =>
    Given(target, "tile") /\ Agree(base, target, ShapeFields \cup Overlay \cup {"sharpen"})

\* 18
TileFits(base, target) ==
  Given(base, "tile") => Agree(base, target, ShapeFields \cup Overlay \cup {"tile"})

\* Mutant: the order of the operations is not looked at.
AnyOrder(base, target) == TRUE

\* 20.  Flip, then rotate, then crop: the base must not be past the stage
\* that the target still needs.
InOrder(base, target) ==
  /\ Given(target, "flip") => ~Given(base, "rotation") /\ ~Cropped(base)
  /\ Given(target, "rotation") => ~Cropped(base)

SuitableForBase(base, target) ==
  /\ SameSource(base, target)
  /\ Aspect(base) = Aspect(target)
  /\ GoodEnough(base, target)
  /\ NoneOrSame(base, target, "flip")
  /\ NoneOrSame(base, target, "rotation")
  /\ Aspect(base) # -1 => base.size_fit = target.size_fit                               \* 11
  /\ MetadataFits(base, target)
  /\ ColourFits(base, target)
  /\ CropFits(base, target)
  /\ OverlayFits(base, target)
  /\ TileFits(base, target)
  /\ ~NotStretched(target) => Agree(base, target, {"align_h", "align_v"})               \* 19
  /\ InOrder(base, target)
=============================================================================
