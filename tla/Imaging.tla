------------------------------ MODULE Imaging ------------------------------
(***************************************************************************)
(* The arithmetic of the Pillow back end (imaging_pillow.py): what becomes *)
(* of an image's size and content when adjust_image() is called.  The      *)
(* pixels are left out.  What an image shows is described by its size, by  *)
(* the size of the part that is not fill, by how it is turned and by the   *)
(* sequence of the other operations; every operation notes how the image   *)
(* was turned when it was applied, so that a different order shows.        *)
(* Angles are multiples of 90 degrees and crops multiples of 1/Unit.       *)
(***************************************************************************)
EXTENDS Integers, Sequences

CONSTANTS None,    \* Python's None
          Unit     \* the number that stands for the crop fraction 1.0

ASSUME UnitAssumption == Unit \in Nat \ {0}
ASSUME NoneAssumption == None \notin (Int \cup BOOLEAN \cup {"pjpg", "pjpeg"})

Ceil(a, b) == (a + b - 1) \div b
Least(a, b) == IF a < b THEN a ELSE b

\* _limit_number
Limit(value, low, high) == IF value < low THEN low ELSE IF value > high THEN high ELSE value

Size(w, h) == [width |-> w, height |-> h]

\* An image as it is read: nothing in it is fill and nothing was done to it.
\* (ok is FALSE for the error that takes the place of an image.)
Picture(w, h, mode) ==
  [width |-> w, height |-> h, inner |-> Size(w, h), mirrored |-> FALSE, turn |-> 0,
   ok |-> TRUE, steps |-> << >>, colour |-> << >>, mode |-> mode, page |-> 1,
   quality |-> 101, dpi |-> 0, stripped |-> FALSE]

Done(image, step) ==
  [image EXCEPT !.steps = Append(@, <<image.mirrored, image.turn, step>>)]

---------------------------------------------------------------------------
(* Size limits, flip and rotation *)

Turned(angle) == (angle \div 90) % 2 = 1

RotatedSize(w, h, angle) == IF Turned(angle) THEN Size(h, w) ELSE Size(w, h)

\* Prevents enlargements, with two pixels of tolerance when the image is to
\* be rotated.
NewSize(image, spec) ==
  LET rotated == RotatedSize(image.width, image.height, spec.rotation)
      slack == IF spec.rotation = 0 THEN 0 ELSE 2
  IN Size(Limit(spec.width, 0, rotated.width + slack), Limit(spec.height, 0, rotated.height + slack))

\* Orientation is a mirror image turned by quarters: a flip from left to
\* right reverses the turns made before it, one from top to bottom also
\* adds a half turn.
Flip(image, flip) ==
  IF flip = None THEN image
  ELSE [image EXCEPT !.mirrored = ~@, !.turn = (IF flip = "v" THEN 2 - @ ELSE -@) % 4]

Rotate(image, angle) ==
  LET rotated == RotatedSize(image.width, image.height, angle)
      inner == RotatedSize(image.inner.width, image.inner.height, angle)
  IN [image EXCEPT !.width = rotated.width, !.height = rotated.height, !.inner = inner,
                   !.turn = (@ + (angle \div 90)) % 4]

---------------------------------------------------------------------------
(* Crop *)

\* Mutant: the uneven stretch forgets what the nearer side has already given.
WidenTwice(low, high, length, want) ==
  LET below == low
      above == length - high
  IN IF want <= 0 THEN <<low, high>>
     ELSE IF below + above <= want THEN <<0, length>>
     ELSE IF 2 * Least(below, above) >= want THEN <<low - want \div 2, high + want \div 2>>
     ELSE IF below < above THEN <<0, high + want>>
     ELSE <<low - want, length>>

\* One axis of _auto_crop_fit: the interval from low to high of a line of
\* the given length, made larger by want, on both sides if there is room.
Widen(low, high, length, want) ==
  LET below == low
      above == length - high
  IN IF want <= 0 THEN <<low, high>>
     ELSE IF below + above <= want THEN <<0, length>>
     ELSE IF 2 * Least(below, above) >= want THEN <<low - want \div 2, high + want \div 2>>
     ELSE IF below < above THEN <<0, high + (want - below)>>
     ELSE <<low - (want - above), length>>

\* Makes the crop higher or wider, towards the aspect ratio of the target.
AutoCropFit(image, crop, target) ==
  LET width == crop.right - crop.left
      height == crop.bottom - crop.top
      Rows(range) == [crop EXCEPT !.top = range[1], !.bottom = range[2]]
      Columns(range) == [crop EXCEPT !.left = range[1], !.right = range[2]]
  IN IF width <= 0 \/ height <= 0 \/ target.width = 0 \/ target.height = 0 THEN crop
     ELSE IF target.width * height < width * target.height
          THEN Rows(Widen(crop.top, crop.bottom, image.height,
                          Ceil(width * target.height, target.width) - height))
          ELSE Columns(Widen(crop.left, crop.right, image.width,
                             Ceil(height * target.width, target.height) - width))

CropPixels(image, spec) ==
  [top |-> Ceil(image.height * spec.top, Unit), left |-> Ceil(image.width * spec.left, Unit),
   bottom |-> Ceil(image.height * spec.bottom, Unit), right |-> Ceil(image.width * spec.right, Unit)]

Part(image, crop, w, h) ==
  IF w > 0 /\ h > 0
  THEN [Done(image, <<"crop", crop>>) EXCEPT !.width = w, !.height = h,
          !.inner = Size(Least(@.width, w), Least(@.height, h))]
  ELSE image
CutOut(image, crop) == Part(image, crop, crop.right - crop.left, crop.bottom - crop.top)
Smaller(crop, image) ==
  crop.top > 0 \/ crop.left > 0 \/ crop.bottom < image.height \/ crop.right < image.width
CropTo(image, asked, fit, target) ==
  IF ~Smaller(asked, image) THEN image
  ELSE CutOut(image, IF fit THEN AutoCropFit(image, asked, target) ELSE asked)

Crop(image, spec, target) == CropTo(image, CropPixels(image, spec), spec.crop_fit, target)

---------------------------------------------------------------------------
(* Resize *)

\* The largest size of the image's proportions in a box of width w and
\* height h: the width is tried first.
FitHeight(image, h) == Size(Ceil(h * image.width, image.height), h)
FitWidth(image, w) == Size(w, Ceil(w * image.height, image.width))
BestFit(image, w, h) == IF FitWidth(image, w).height > h THEN FitHeight(image, h) ELSE FitWidth(image, w)

\* The image in a canvas: bars of a single pixel are avoided.
NoThinBar(size, w, h) ==
  Size(IF size.width - w \in {-1, 1} THEN w ELSE size.width, IF size.height - h \in {-1, 1} THEN h ELSE size.height)
InCanvas(image, w, h) ==
  NoThinBar(IF w * image.height < image.width * h THEN FitWidth(image, w) ELSE FitHeight(image, h), w, h)

\* _image_resize_bare: what is shown keeps its place.
Scale(image, size) ==
  [image EXCEPT !.width = size.width, !.height = size.height,
     !.inner = Size(Ceil(@.width * size.width, image.width), Ceil(@.height * size.height, image.height))]

\* An image that already has the size that it gets in a larger canvas is not
\* resized, and the copy of it that was to be pasted does not exist.
NothingToPaste(image, w, h) ==
  InCanvas(image, w, h) = Size(image.width, image.height) /\ Size(w, h) # Size(image.width, image.height)

Resize(image, w, h, size_fit) ==
  IF w = 0 /\ h = 0 THEN image
  ELSE IF h = 0 THEN Scale(image, FitWidth(image, w))
  ELSE IF w = 0 THEN Scale(image, FitHeight(image, h))
  ELSE IF size_fit THEN Scale(image, BestFit(image, w, h))
  ELSE [Scale(image, InCanvas(image, w, h)) EXCEPT !.width = w, !.height = h,
                                                  !.ok = @ /\ ~NothingToPaste(image, w, h)]

---------------------------------------------------------------------------
(* Tiles *)

\* The length of a side of a grid of so many tiles.
AxisLength(grid) == CHOOSE n \in 0..grid : n * n <= grid /\ grid < (n + 1) * (n + 1)

\* Mutant: the last tile of a row is counted to the next one.
TileRowBelow(number, axis) == number \div axis

\* Columns and rows are counted from 0, tiles from 1.
TileColumn(number, axis) == IF number % axis = 0 THEN axis - 1 ELSE (number % axis) - 1
TileRow(number, axis) == IF number % axis = 0 THEN (number \div axis) - 1 ELSE number \div axis

\* Where strip i of an image side begins and ends; the last one has the rest.
StripStart(length, axis, i) == i * (length \div axis)
StripEnd(length, axis, i) ==
  StripStart(length, axis, i) + (length \div axis) + (IF i = axis - 1 THEN (length % axis) ELSE 0)

CutTile(image, tile, axis, x, y) ==
  [Done(image, <<"tile", tile>>) EXCEPT
     !.width = StripEnd(image.width, axis, x) - StripStart(image.width, axis, x),
     !.height = StripEnd(image.height, axis, y) - StripStart(image.height, axis, y)]

TileInGrid(image, tile, axis) == CutTile(image, tile, axis, TileColumn(tile[1], axis), TileRow(tile[1], axis))
Tile(image, tile) == IF tile = None THEN image ELSE TileInGrid(image, tile, AxisLength(tile[2]))

---------------------------------------------------------------------------
(* Modes and saving *)

JpegFormats == {"jpg", "jpeg", "jpe", "jfif", "jif", "pjpg", "pjpeg"}
SupportsTransparency(format) == format \in {"gif", "png"}
Alpha(mode) == mode \in {"LA", "RGBA"}
Opaque(mode) == CASE mode = "LA" -> "L" [] mode = "RGBA" -> "RGB" [] OTHER -> mode

\* Palette images become RGB, those with a transparent colour ("PA") RGBA; a
\* transparent fill needs an alpha band, if the format has one.
WorkingMode(image, spec) ==
  LET mode == CASE image.mode = "P" -> "RGB" [] image.mode = "PA" -> "RGBA" [] OTHER -> image.mode
  IN IF spec.fill = "none" /\ SupportsTransparency(spec.format) /\ ~Alpha(mode)
     THEN IF mode = "L" THEN "LA" ELSE "RGBA"
     ELSE mode

\* A progressive JPEG is not known as a JPEG where the mode is chosen.
Progressive == {"pjpg", "pjpeg"}
SavedModes(format) ==
  CASE format = "gif" -> {"P"}
    [] format = "png" -> {"1", "L", "LA", "P", "RGB", "RGBA"}
    [] format \in JpegFormats \ Progressive -> {"L", "RGB", "CMYK"}
    [] format = "tiff" -> {"1", "L", "LA", "P", "RGB", "RGBA", "CMYK"}
    [] OTHER -> {}

SaveMode(mode, format) ==
  IF mode \in SavedModes(format) \/ SavedModes(format) = {} THEN mode
  ELSE IF format = "gif" THEN IF Alpha(mode) THEN "PA" ELSE "P"
  ELSE IF Alpha(mode) THEN Opaque(mode) ELSE "RGB"

\* Each lossy encoding leaves at most its own quality.  A progressive JPEG of a
\* transparent image is an error.  (Where transparency is taken away, the fill
\* colour shows; no picture here tells fill colours apart.)
Save(image, spec) ==
  [image EXCEPT !.mode = SaveMode(@, spec.format),
                !.ok = @ /\ ~(spec.format \in Progressive /\ Alpha(image.mode)),
                !.quality = IF spec.format \in JpegFormats THEN Least(@, spec.quality) ELSE @,
                !.dpi = IF spec.dpi # 0 THEN spec.dpi ELSE @,
                !.stripped = @ \/ spec.strip]

---------------------------------------------------------------------------
(* adjust_image() *)

\* What _validate_image_spec raises an error for.  (The defaults and limits
\* that it also sets are set in a copy and lost.)
ValidSpec(spec) ==
  spec.tile = None \/ (spec.tile[2] >= 4 /\ \E n \in 0..spec.tile[2] : n * n = spec.tile[2])

\* The operations that Pillow lacks have the place that its comments give
\* them.  A conversion to the colours that the image has changes nothing.
Special(image, name, value) == IF value = None THEN image ELSE Done(image, <<name, value>>)
Convert(image, name, value) ==
  IF value = None THEN image
  ELSE IF image.colour # << >> /\ image.colour[Len(image.colour)] = <<name, value>> THEN image
  ELSE [image EXCEPT !.colour = Append(@, <<name, value>>)]

\* Flip, rotate, crop, resize, sharpen, overlay, tile, ICC profile, colour
\* space, strip: the order is fixed.
AdjustImage(image, spec) ==
  LET size == NewSize(image, spec)
      paged == [image EXCEPT !.mode = WorkingMode(image, spec), !.page = IF spec.page = 1 THEN @ ELSE spec.page]
      flipped == Flip(paged, spec.flip)
      rotated == Rotate(flipped, spec.rotation)
      cropped == Crop(rotated, spec, size)
      resized == Resize(cropped, size.width, size.height, spec.size_fit)
      sharpened == Special(resized, "sharpen", spec.sharpen)
      overlaid == Special(sharpened, "overlay", spec.overlay)
      tiled == Tile(overlaid, spec.tile)
      profiled == Convert(tiled, "icc", spec.icc)
      coloured == Convert(profiled, "colorspace", spec.colorspace)
  IN Save(coloured, spec)
=============================================================================
