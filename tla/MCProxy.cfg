CONSTANTS
    agent = agent
    relay = relay
    inner = inner
    loop = loop
    archive = archive
    glpi1 = glpi1
    glpi2 = glpi2
    NumSubmissions = 2
    Proxy = {relay, inner, loop, archive}
    Glpi = {glpi1, glpi2}
    ServersOf <- MCServersOf
    LocalStore = {relay, inner, archive}
    OnlyLocalStore = {}
    GlpiProtocol = {relay, inner, loop, archive}
    MaxPassThrough <- MCMaxPassThrough
    TrustedBy <- MCTrustedBy
    Agent = agent
    AgentDepths = {0, 1}
    ForbidNotTrusted = {inner}
    MaxDepth = 4
SPECIFICATION FairSpec
INVARIANTS OkMeansDelivered StoredBeforeForwarded
PROPERTIES Answered
