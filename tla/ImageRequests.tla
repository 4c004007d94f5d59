--------------------------- MODULE ImageRequests ---------------------------
(***************************************************************************)
(* Who asks for images of one file, and which image is made: the web view  *)
(* (views.py), the portfolio export (portfolios/util.py) and the pyramid   *)
(* task (tasks.py) fill in the attributes in their own ways; get_image()   *)
(* answers from the cache, or adjusts the best base that the cache holds,  *)
(* or the file.  ImageGeneration has the threads, the locks and the errors *)
(* of the same code; here a request is one step, and the question is what  *)
(* the image shows.                                                        *)
(***************************************************************************)
EXTENDS ImageAttributes

CONSTANTS Original,     \* the file: [width, height, mode]
          Views,        \* requests of the web view: [attrs, public, limit], with the
                        \* PUBLIC_MAX_IMAGE_WIDTH and _HEIGHT in force: [width, height],
                        \* 0 for none
          Exports,      \* images of an export: [image, export : attributes, originals, ext]
          Templates,    \* the templates: a function from names to attributes
          Default,      \* the name of the default template
          PyramidPixels, \* AUTO_PYRAMID_THRESHOLD
          PdfDpi,       \* PDF_BURST_DPI
          MaxCached     \* bound: with so many images in the cache, one goes before
                        \* the next request

\* A template is validated but not normalised, because what has no effect in
\* the template may have one in an image.
Accepted(template) == Valid(template)
ASSUME OriginalAssumption == Original.width \in Nat \ {0} /\ Original.height \in Nat \ {0}
ASSUME ViewsAssumption == \A v \in Views : v.attrs = [f \in Fields |-> v.attrs[f]]
ASSUME PublicLimitAssumption == \A v \in Views : v.limit.width \in Nat /\ v.limit.height \in Nat
ASSUME MaxCachedAssumption == MaxCached \in Nat
ASSUME TemplatesAssumption == Default \in DOMAIN Templates /\ \A t \in DOMAIN Templates : Accepted(Templates[t])

VARIABLE cache          \* the images in the cache with their attributes, and
                        \* (history) whether the base may have mattered
requestVars == <<cache>>

File == Picture(Original.width, Original.height, Original.mode)
Entry(attrs, image, exact) == [attrs |-> attrs, image |-> image, exact |-> exact]
FileEntry == Entry(NoAttrs, File, TRUE)

RequestsTypeOK == \A e \in cache : e.attrs = NormaliseValues(e.attrs) /\ Cardinality(cache) <= MaxCached + 1

RequestsInit == cache = {}

---------------------------------------------------------------------------
(* _adjust_image() *)

\* Unspecified here does not mean that the quality is the file's.
DefaultQuality(format) == IF format = "png" THEN 79 ELSE 80

\* What the base has already is not done again.
Unless(condition, value, none) == IF condition THEN none ELSE value

Operations(base, new) ==
  LET Has(f) == Given(base, f) /\ base[f] = new[f]
      sameTile == Has("tile")
      sameProfile == Has("icc_profile") /\ base.icc_intent = new.icc_intent
                     /\ OrElse(base.icc_bpc, FALSE) = new.icc_bpc
  IN [page |-> Unless(Has("page"), OrElse(new.page, 1), 1),
      width |-> OrElse(new.width, 0), height |-> OrElse(new.height, 0),
      size_fit |-> Truthy(new, "size_fit"),
      rotation |-> Unless(Has("rotation") \/ sameTile, OrElse(new.rotation, 0), 0),
      flip |-> Unless(Has("flip"), new.flip, None),
      top |-> Unless(Has("top") \/ sameTile, OrElse(new.top, 0), 0),
      left |-> Unless(Has("left") \/ sameTile, OrElse(new.left, 0), 0),
      bottom |-> Unless(Has("bottom") \/ sameTile, OrElse(new.bottom, Unit), Unit),
      right |-> Unless(Has("right") \/ sameTile, OrElse(new.right, Unit), Unit),
      crop_fit |-> Truthy(new, "crop_fit") /\ ~Truthy(base, "crop_fit"),
      sharpen |-> Unless(Has("sharpen") \/ new.sharpen = 0, new.sharpen, None),
      overlay |-> Unless(Has("overlay_src"), new.overlay_src, None),
      icc |-> Unless(sameProfile, new.icc_profile, None),
      colorspace |-> new.colorspace,
      tile |-> Unless(sameTile, new.tile, None),
      fill |-> OrElse(new.fill, "white"),
      format |-> FormatOf(new),
      quality |-> OrElse(new.quality, DefaultQuality(FormatOf(new))),
      dpi |-> OrElse(new.dpi, IF IsPdf THEN PdfDpi ELSE 0),
      strip |-> Truthy(new, "strip")]

Performed(image, operations) ==
  IF ValidSpec(operations) THEN AdjustImage(image, operations) ELSE [image EXCEPT !.ok = FALSE]
Adjusted(base, new) ==
  IF AttributesChangeImage(new) THEN Performed(base.image, Operations(base.attrs, new)) ELSE base.image

---------------------------------------------------------------------------
(* get_image() *)

Hits(images, attrs) == {e \in images : CacheKey(e.attrs) = CacheKey(attrs)}

\* The search of _get_base_image: its columns, then suitable_for_base, and
\* no errors.  The smallest file comes first, which may be any of them.
SearchHash(a, tile) == <<FormatOf(a), a.fill, tile>>
Candidates(images, attrs) ==
  {e \in images : SearchHash(e.attrs, e.attrs.tile)
                    \in {SearchHash(attrs, None), SearchHash(attrs, attrs.tile)}}
BaseImages(images, attrs) ==
  {e \in Candidates(images, attrs) : SuitableForBase(e.attrs, attrs) /\ e.image.ok}

\* Two cases in which the image depends on the base.  A size is that of the
\* turned image, but that of the base was reached before it is turned.
TurnsSized(base, attrs) ==
  Given(attrs, "rotation") /\ ~Given(base, "rotation") /\ (Given(base, "width") \/ Given(base, "height"))

\* A crop of the file may be enlarged, one of a cropped base may not.
Direct(attrs) == Adjusted(FileEntry, attrs)
Enlarged(crop, sized) == crop.width < sized.width \/ crop.height < sized.height \/ ~sized.ok
EnlargesCrop(base, attrs) ==
  Cropped(base) /\ Enlarged(Direct([attrs EXCEPT !.width = None, !.height = None, !.tile = None]),
                            Direct([attrs EXCEPT !.tile = None]))

Answered(images, attrs, image, exact) ==
  [image |-> image, exact |-> exact, cache |-> images \cup {Entry(attrs, image, exact)}]
Stored(images, attrs, base) ==
  Answered(images, attrs, Adjusted(base, attrs),
         base.exact /\ ~TurnsSized(base.attrs, attrs) /\ ~EnlargesCrop(base.attrs, attrs))

\* What get_image may answer for an image that is not a tile, and the cache
\* afterwards.
Whole(images, attrs) ==
  LET hits == Hits(images, attrs)
      bases == BaseImages(images, attrs)
  IN IF hits # {} THEN {[image |-> e.image, exact |-> e.exact, cache |-> images] : e \in hits}
     ELSE {Stored(images, attrs, b) : b \in IF bases = {} THEN {FileEntry} ELSE bases}

\* A tile is made from the whole image of its size, which is made first.
TileOf(images, attrs) ==
  LET bases == BaseImages(images, attrs)
      SameSize(b) == Agree(b.attrs, attrs, {"width", "height"})
      untiled == [attrs EXCEPT !.tile = None]
      FromWhole == {Stored(whole.cache, attrs,
                           IF whole.image.ok THEN Entry(untiled, whole.image, whole.exact) ELSE FileEntry) :
                      whole \in Whole(images, untiled)}
  IN {Stored(images, attrs, b) : b \in {x \in bases : SameSize(x)}}
     \cup (IF bases = {} \/ \E b \in bases : ~SameSize(b) THEN FromWhole ELSE {})

GetImage(images, attrs) ==
  IF Given(attrs, "tile") /\ Hits(images, attrs) = {} THEN TileOf(images, attrs) ELSE Whole(images, attrs)

---------------------------------------------------------------------------
(* The web view *)

\* The template that is asked for, or else the default one.
TemplateOf(a) == Templates[OrElse(a.template, Default)]

Finalised(a) == FinaliseImageAttrs(a, TemplateOf(a))

Zero(value) == OrElse(value, 0)

\* _public_image_limits_pre_image_checks: a template may exceed the limits,
\* and so may a request for a tile.
Limited(a, limit) == limit.width + limit.height > 0 /\ ~Given(a, "tile")
TemplateSize(a, f) == IF Given(a, "template") THEN Zero(Templates[a.template][f]) ELSE 0
LimitOf(a, limit, f) ==
  IF limit[f] > 0 /\ TemplateSize(a, f) > limit[f] THEN TemplateSize(a, f) ELSE limit[f]
Exceeds(a, limit, f) == LimitOf(a, limit, f) > 0 /\ Zero(a[f]) > LimitOf(a, limit, f)
Unsized(a) == \A f \in {"width", "height"} : Zero(a[f]) = 0 /\ TemplateSize(a, f) = 0

PreLimits(a, limit) ==
  IF ~Limited(a, limit) \/ ~Unsized(a) THEN a
  ELSE [a EXCEPT !.width = limit.width, !.height = limit.height,
                 !.size_fit = IF @ = None /\ limit.width > 0 /\ limit.height > 0 THEN TRUE ELSE @]

\* _public_image_limits_post_image_checks: the one dimension that could not
\* be checked before, if that has the only limit.
Sides == {"width", "height"}
Other(f) == IF f = "width" THEN "height" ELSE "width"
PostExceeds(a, limit, image) ==
  /\ ~Given(a, "template")
  /\ \E f \in Sides : /\ limit[f] > 0 /\ limit[Other(f)] = 0
                      /\ Zero(a[Other(f)]) > 0 /\ Zero(a[f]) = 0
                      /\ image[f] > limit[f]

Refused == [status |-> 400]
Failed == [status |-> 415]

\* finalise_image_attrs raises an error for all others.
Ready(a) == Valid(a) /\ (Given(a, "template") => a.template \in DOMAIN Templates)

\* image(): the attributes to make, or a refusal.
Asked(view) ==
  LET limited == IF view.public THEN PreLimits(view.attrs, view.limit) ELSE view.attrs
  IN IF \/ /\ view.public /\ Limited(view.attrs, view.limit)
           /\ \E f \in Sides : Exceeds(view.attrs, view.limit, f)
        \/ ~Ready(limited)
     THEN Refused ELSE [status |-> 200, attrs |-> Finalised(limited)]

\* Mutant: the image is not looked at again.
UncheckedResponse(view, attrs, image) ==
  IF ~image.ok THEN Failed ELSE [status |-> 200, image |-> image]

\* ... and what it answers when get_image has made them.
Response(view, attrs, image) ==
  IF ~image.ok THEN Failed
  ELSE IF view.public /\ PostExceeds(attrs, view.limit, image) THEN Refused
  ELSE [status |-> 200, image |-> image]

\* The attributes of every view and export, worked out once.
AskedOf == [v \in Views |-> Asked(v)]

View(v) ==
  /\ AskedOf[v] # Refused
  /\ \E answer \in GetImage(cache, AskedOf[v].attrs) : cache' = answer.cache

---------------------------------------------------------------------------
(* The portfolio export *)

\* get_portfolio_export_image_attrs: the parameters of the export override
\* those of the image in the portfolio, and the template fills in the rest.
ExportRequest(x) == ApplyDict(ApplyDict(NoAttrs, x.image, FALSE), x.export, TRUE)
ExportAttrs(x) == IF x.originals THEN NoAttrs ELSE Finalised(ExportRequest(x))

ExportAttrsOf == [x \in Exports |-> ExportAttrs(x)]

Export(x) ==
  /\ ~x.originals /\ Ready(ExportRequest(x))
  /\ \E answer \in GetImage(cache, ExportAttrsOf[x]) : cache' = answer.cache

---------------------------------------------------------------------------
(* The pyramid task *)

\* Widths from the file's down, each with half the pixels of the last.
ReducedWidth[n \in Nat] ==
  IF n = 0 THEN Original.width ELSE LET w == ReducedWidth[n - 1] IN (w * 10000 + 7071) \div 14142

Pixels(w) == w * ((2 * w * Original.height + Original.width) \div (2 * Original.width))
PyramidWidths == {ReducedWidth[n] : n \in {m \in 1..8 : Pixels(ReducedWidth[m - 1]) > PyramidPixels}}

\* create_image_pyramid: values that are given, but false, keep those of the
\* default template away.
PyramidRequest(tile, w) ==
  [NoAttrs EXCEPT !.page = tile.page, !.format = FormatOf(tile), !.width = w,
                  !.colorspace = tile.colorspace, !.strip = FALSE, !.dpi = 0]
PyramidAttrs(tile, w) == Finalised(PyramidRequest(tile, w))

\* _auto_pyramid_image starts the task when a tile of a large file is made.
Pyramid(e, w) ==
  /\ Given(e.attrs, "tile") /\ ~Given(e.attrs, "overlay_src")
  /\ Original.width * Original.height >= PyramidPixels
  /\ Ready(PyramidRequest(e.attrs, w))
  /\ \E answer \in GetImage(cache, PyramidAttrs(e.attrs, w)) : cache' = answer.cache

---------------------------------------------------------------------------
\* memcached makes room.
EvictImage(e) == cache' = cache \ {e}

Room == Cardinality(cache) < MaxCached

RequestsNext ==
  \/ Room /\ \E v \in Views : View(v)
  \/ Room /\ \E x \in Exports : Export(x)
  \/ Room /\ \E e \in cache, w \in PyramidWidths : Pyramid(e, w)
  \/ \E e \in cache : EvictImage(e)

RequestsSpec == RequestsInit /\ [][RequestsNext]_requestVars

---------------------------------------------------------------------------
(* Properties *)

Near(a, b) == a - b \in -4..4
SameShape(i, j) == Near(i.width, j.width) /\ Near(i.height, j.height)
SameContent(i, j) == /\ Near(i.inner.width, j.inner.width) /\ Near(i.inner.height, j.inner.height)
                     /\ i.mirrored = j.mirrored /\ i.turn = j.turn /\ i.steps = j.steps
                     /\ i.page = j.page /\ i.mode = j.mode

\* Of equal size but for rounding, the part that is not fill too, turned the
\* same way, with all other operations once and in order.
SameImage(i, j) == i.ok = j.ok /\ SameShape(i, j) /\ SameContent(i, j)

\* Not worse: with the colours, the resolution and the metadata, and after no
\* lossy step that left less quality than was asked for, or than applies when
\* none is given.
AsGood(i, j) ==
  i.ok /\ j.ok => /\ i.colour = j.colour /\ i.dpi = j.dpi /\ i.stripped = j.stripped
                  /\ i.quality >= Least(j.quality, DefaultQuality("jpg"))

\* An image is the one that its attributes make of the file, and not worse,
\* whatever was in the cache when it was made.
ImageIsAsFromTheFile ==
  \A e \in cache : LET direct == Direct(e.attrs)
                  IN  (e.exact => SameImage(e.image, direct)) /\ AsGood(e.image, direct)

\* An image that is sent to the public, and is not a tile, exceeds neither
\* limit in force, nor a larger size of the template, whatever base, crop or
\* turn it comes from.  Nobody looks at a dimension that is not asked for if
\* a template was, or if the other dimension has a limit of its own; that
\* one is kept.
Allowed(v, f) == LET size == Zero(TemplateOf(v.attrs)[f])
                 IN IF size > v.limit[f] THEN size ELSE v.limit[f]
Overlooked(v, f) ==
  LET a == AskedOf[v].attrs
  IN  ~Given(a, f) /\ (Given(a, "template") \/ (Given(a, Other(f)) /\ v.limit[Other(f)] > 0))
SentWithinLimits(v, response) ==
  response.status = 200 =>
    \A f \in Sides : v.limit[f] > 0 => response.image[f] <= Allowed(v, f) \/ Overlooked(v, f)
PublicImagesAreLimited ==
  \A v \in Views :
    v.public /\ AskedOf[v] # Refused /\ ~Given(v.attrs, "tile") /\ ~Given(AskedOf[v].attrs, "tile") =>
      \A answer \in GetImage(cache, AskedOf[v].attrs) :
        SentWithinLimits(v, Response(v, AskedOf[v].attrs, answer.image))

\* Normalising the attributes takes away no effect that they have: what the
\* cache holds for a request is the image that the values as they were given
\* would make, and normalising twice changes nothing more: a key that is
\* worked out again is the same.
SameMeaning(given, normal) ==
  /\ NormaliseValues(normal) = normal
  /\ AttributesChangeImage(normal) /\ Direct(given).ok => SameImage(Direct(normal), Direct(given))
GivenOf(v) == ApplyDict(v.attrs, TemplateOf(v.attrs), FALSE)
MeaningIsKept == [v \in Views |-> SameMeaning(GivenOf(v), NormaliseValues(GivenOf(v)))]
NormalisingKeepsTheImage ==
  \A v \in Views : MeaningIsKept[v] \/ AskedOf[v] = Refused \/ Hits(cache, AskedOf[v].attrs) = {}

\* The tiles of a grid: every strip begins where the one before ends, and
\* every place has one number.
StripsMeet(length, axis) ==
  /\ StripStart(length, axis, 0) = 0
  /\ StripEnd(length, axis, axis - 1) = length
  /\ \A i \in 1..(axis - 1) : StripStart(length, axis, i) = StripEnd(length, axis, i - 1)
PlacesAreUnique(axis) ==
  \A x, y \in 0..(axis - 1) :
    {n \in 1..(axis * axis) : TileColumn(n, axis) = x /\ TileRow(n, axis) = y} = {y * axis + x + 1}
TilesCover ==
  [axis \in 1..AxisLength(MaxTiles) |->
     PlacesAreUnique(axis) /\ \A length \in MaxTiles..(2 * MaxTiles) : StripsMeet(length, axis)]

\* A fitted crop keeps what was asked for, stays inside the image, and gets
\* as much more as was wanted, or all there is.
FittedCrop(low, high, length, want, fitted) ==
  /\ 0 <= fitted[1] /\ fitted[1] <= low /\ high <= fitted[2] /\ fitted[2] <= length
  /\ \/ fitted = <<0, length>>
     \/ (high - low) + want - (fitted[2] - fitted[1]) \in {0, 1}
     \/ want <= 0
CropsFit ==
  \A length \in 1..12, want \in -2..12 : \A low \in 0..(length - 1) : \A high \in (low + 1)..length :
    FittedCrop(low, high, length, want, Widen(low, high, length, want))

\* What is cut from an image is what was asked for: the tiles of a grid cover
\* all of the image once, and a crop that is fitted to its target loses nothing.
CutsAreComplete ==
  \A e \in cache : /\ Given(e.attrs, "tile") => TilesCover[AxisLength(e.attrs.tile[2])]
                   /\ Truthy(e.attrs, "crop_fit") => CropsFit
=============================================================================
