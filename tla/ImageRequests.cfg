CONSTANTS
  None = None
  Unit = 4
  Ext = "jpg"
  IsPdf = FALSE
  Formats = {"jpg", "png", "pjpg", "pjpeg", "gif"}
  MaxDimension = 1000
  MaxTiles = 16
  Original <- OriginalDef
  Views <- ViewsDef
  Exports <- ExportsDef
  Templates <- TemplatesDef
  Default = "default"
  PyramidPixels = 16000
  PdfDpi = 150
  MaxCached = 2
SPECIFICATION RequestsSpec
INVARIANTS ImageIsAsFromTheFile PublicImagesAreLimited NormalisingKeepsTheImage CutsAreComplete
