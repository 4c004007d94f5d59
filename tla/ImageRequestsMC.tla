-------------------------- MODULE ImageRequestsMC --------------------------
(* A picture of 320 x 160 pixels, requests that combine a size with one or two
   other attributes, three exports and a default template. *)
EXTENDS ImageRequests, TLC

With(base, extra) == [f \in Fields |-> IF f \in DOMAIN extra THEN extra[f] ELSE base[f]]

OriginalDef == [width |-> 320, height |-> 160, mode |-> "RGB"]

Sizes == {NoAttrs,
          With(NoAttrs, [width |-> 240]), With(NoAttrs, [width |-> 120]), With(NoAttrs, [height |-> 80]),
          With(NoAttrs, [width |-> 160, height |-> 160]), With(NoAttrs, [width |-> 20, height |-> 80]),
          With(NoAttrs, [width |-> 160, height |-> 80, size_fit |-> TRUE])}

Turns == {[rotation |-> 90], [rotation |-> 180, flip |-> "v"], [flip |-> "v"], [rotation |-> 360, fill |-> "red"],
          [rotation |-> 90, fill |-> "red"]}
Crops == {[left |-> 1, right |-> 2], [left |-> 1, right |-> 2, crop_fit |-> TRUE], [top |-> 0, bottom |-> 3]}
Finishes == {[quality |-> 50], [quality |-> 90, tile |-> <<4, 4>>], [strip |-> TRUE, page |-> 1], [sharpen |-> 100],
             [format |-> "png", colorspace |-> "grey"], [overlay_src |-> "o", overlay_size |-> 100], [dpi |-> 72, page |-> 2]}
Tiles == {[tile |-> <<1, 4>>, strip |-> TRUE], [tile |-> <<4, 4>>, overlay_src |-> "o"],
          [tile |-> <<3, 9>>, format |-> "pjpeg", sharpen |-> 0], [tile |-> <<1, 1>>, crop_fit |-> TRUE]}

Plains == {With(s, x) : s \in Sizes, x \in Turns \cup Crops \cup Finishes}
Some == {NoAttrs, With(NoAttrs, [width |-> 120]), With(NoAttrs, [width |-> 80, height |-> 80])}
Mixed == {With(With(s, x), y) : s \in Some, x \in Turns, y \in Crops} \cup {With(s, x) : s \in Some, x \in Tiles}

Public == {With(s, x) : s \in {NoAttrs, With(NoAttrs, [width |-> 120]), With(NoAttrs, [width |-> 240]),
                               With(NoAttrs, [height |-> 80]), With(NoAttrs, [height |-> 120])},
                        x \in {[page |-> 1], [rotation |-> 90], [left |-> 1, right |-> 2], [template |-> "wide"]}}

Probes == {With(s, x) : s \in {NoAttrs, With(NoAttrs, [width |-> 120]), With(NoAttrs, [height |-> 80])},
                        x \in {[rotation |-> 90], [template |-> "wide"]}}

Setting(w, h) == [width |-> w, height |-> h]

\* The settings are changed now and then; the cache survives it.
ViewsDef == {[attrs |-> a, public |-> FALSE, limit |-> Setting(200, 0)] : a \in Sizes \cup Plains \cup Mixed}
            \cup {[attrs |-> a, public |-> TRUE, limit |-> Setting(200, 0)] : a \in Public}
            \cup {[attrs |-> a, public |-> TRUE, limit |-> l] :
                     a \in Probes, l \in {Setting(0, 100), Setting(200, 100)}}

ExportsDef ==
  {[image |-> i, export |-> e, originals |-> o] :
     i \in {NoAttrs, With(NoAttrs, [width |-> 240, format |-> "png"])},
     e \in {NoAttrs, With(NoAttrs, [format |-> "pjpeg", rotation |-> 90])},
     o \in BOOLEAN}

TemplatesDef == "default" :> With(NoAttrs, [quality |-> 80])
                @@ "wide" :> With(NoAttrs, [width |-> 240, fill |-> "red", quality |-> 60])
=============================================================================
