SPECIFICATION Spec
CONSTANTS
    shop = shop
    desk = desk
    home = home
    office = office
    proxy = proxy
    Merchants = {shop, desk}
    Addresses = {home, office, proxy}
    TrustedProxies = {proxy}
    MerchantAllowed = {home}
    AdminAllowed = {office}
    RequireHTTPS = TRUE
    TrustProxyHeaders = TRUE
    HasCertificate = FALSE
    Production = TRUE
    Window = 1
    Requests <- Sent
    IssuedCards <- Cards
    InitialMerchants <- Table
    InitialRoutes <- Rules
    NewRoutes <- Additions
    Environments <- Two
    SeedOf <- Seeding
    MaxTime = 2
    MaxChanges = 2
INVARIANTS TypeOK DecisionIsRight RefundGoesHome MistypedIsRefused
PROPERTIES SentAsRouted
