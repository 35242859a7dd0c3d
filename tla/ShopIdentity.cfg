SPECIFICATION Spec
CONSTANTS
    Null = Null
    anna = anna
    bert = bert
    n1 = n1
    n2 = n2
    sklep = sklep
    sklep1 = sklep1
    butik1 = butik1
    Jars = {j1}
    Shops <- MCShops
    Ids <- MCIds
    Hosts <- MCHosts
    ShopId <- MCShopId
    LicenseId <- MCLicenseId
    Addresses <- MCAddresses
    Canonical <- MCCanonical
    Number <- MCNumber
    Label <- MCLabel
CONSTRAINT OneCrossing
INVARIANTS
    PanelOwnAccount
    WebhooksOwnAccount
