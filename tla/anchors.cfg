CONSTANTS
    p = p
    q = q
    dir = dir
    x = x
    y = y
    Blank = Blank
    NoPath = NoPath
    Missing = Missing
    NoContent = NoContent
    Unreadable = Unreadable
    NoThread = NoThread
    NoProjection = NoProjection
    Trees <- SomeTrees
    Contexts = {0, 1}
    Around = 1
    Word = {x, y, Blank}
    Part = {p, q, dir}
    Malformed <- Refused
SPECIFICATION Spec
INVARIANTS ManifestIsTrue CurrentMeansExact
PROPERTIES UnchangedFileKeepsThread AnchorsWhatIsShown
