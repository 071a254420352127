SPECIFICATION Spec
CONSTANTS
    Slugs <- MCSlugs
    Customs <- MCCustoms
    Root = Root
    Hosts = {h1}
    MinOrder <- MCMinOrder
    MaxOrder = 2
    MaxServices = 3
    MaxAdds = 3
    None = None
PROPERTY
    SkippedServicesKept
