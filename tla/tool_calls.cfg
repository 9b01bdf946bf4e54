\* A tool from the contract to the request, over small contracts, with
\* replacements of the image at any moment.
SPECIFICATION Spec
CONSTANTS
    Contracts <- SomeContracts
    Document <- SomeDocuments
    Upgrades <- SomeUpgrades
    Pins <- SomePins
    Legacy <- OldPins
    Arguments <- SomeArguments
    TaskDefaults <- Defaults
    Fields = {"Name", "StartDate", "Settings"}
    FieldValues = {"n", ""}
    Sensitive = {"password"}
    DefaultRows = 2
    MaxRows = 2
    Big = Big
    Short = Short
    Templated = {"/v2/locks/{id}"}
    NoBody = NoBody
    NoSchema = NoSchema
    Unresolved = Unresolved
    Unversioned = Unversioned
    NoAgent = NoAgent
    NoRun = NoRun
    NoRequest = NoRequest
INVARIANTS TypeOK PinsAreSent SentConforms OfferedIsAccepted CatalogIsContract
