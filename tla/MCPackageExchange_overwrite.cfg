SPECIFICATION Spec
CONSTANTS
    Publisher <- MCPublisher
    Installer <- MCInstaller
    Forced <- NoneForced
    Content <- MCContent
    Digest <- MCDigest
    Nothing = nothing
PROPERTY OnlyForceOverwrites
