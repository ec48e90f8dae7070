SPECIFICATION Spec
CONSTANTS
    Uploads = {u1}
    Requests = {r1, r2}
    Targets = {t1}
    MaxPart = 2
    MaxSize = 1
    NoUpload = none
SYMMETRY Symmetry
VIEW WithoutAccepted
CONSTRAINT OneTrouble
INVARIANTS TypeOK PublishedWhole ManifestWithinDeclared RowsTruthful
PROPERTIES NothingOverwritten WithdrawnStaysUnpublished
