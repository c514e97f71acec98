SPECIFICATION AuthSpec
CONSTANTS
    Hashes = {h1, h2}
    NoHash = none
    MaxRetries = 2
    Clients = {c1, c2}
    MaxTokens = 2
PROPERTY
    SetupNeedsNoPin
