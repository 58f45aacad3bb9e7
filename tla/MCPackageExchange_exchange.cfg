SPECIFICATION Spec
CONSTANTS
    Publisher <- MCPublisher
    Installer <- MCInstaller
    Forced <- OneForced
    Content <- MCContent
    Digest <- MCDigest
    Nothing = nothing
INVARIANTS
    ManifestFollowsPackage
    InstalledIsAnnounced
    MismatchMeansTwoPackages
